---- MODULE Spec2Model ----
(***************************************************************************)
(* SecondBrain: the entries table and the HTTP handlers that read and      *)
(* write it.  Rows keep the column names of the table; request bodies are  *)
(* JSON objects, modelled as functions from the keys that are present to   *)
(* their values, so that `body.x !== undefined` is `"x" \in DOMAIN body`.  *)
(***************************************************************************)
EXTENDS Integers, Sequences, FiniteSets, TLC

VARIABLES
  entries,   \* the rows of the entries table
  nextId,    \* the id the next inserted row gets
  now,       \* the clock, in minutes
  inflight,  \* the requests that have read their entry and await the model
  last,      \* the request answered last, with its response
  client     \* the state of the page that is open in the browser

vars == <<entries, nextId, now, inflight, last, client>>

(***************************************************************************)
(* Bounds of the model.                                                    *)
(***************************************************************************)
\* number of rows the requests create, and of ids they address
MaxEntries == 1
\* number of requests answered in one behaviour; the clock ticks once a response
MaxTime == 2
\* number of requests that may await the model at the same time
MaxInflight == 1
\* the minute the clock starts at
StartMinute == 600

(***************************************************************************)
(* Callers.  supabase.auth.getUser() yields a user or null.                *)
(***************************************************************************)
Users == {"u1", "u2"}
Anon == "anon"
Callers == Users \cup {Anon}

(***************************************************************************)
(* The entries table.                                                      *)
(***************************************************************************)
\* category TEXT NOT NULL CHECK (category IN (...))
Categories == {"people", "projects", "ideas", "tasks"}

\* BOOLEAN columns are nullable: three values
SqlBool == {"true", "false", "null"}

NoRow == [id |-> 0]

Ids == 1..MaxEntries

\* the empty JSON object
EmptyObj == <<>>

\* a spread in which the first object's values win
MergeKeepFirst(a, b) ==
  [k \in DOMAIN a \cup DOMAIN b |-> IF k \in DOMAIN a THEN a[k] ELSE b[k]]

\* { ...a, ...b }
Merge(a, b) ==
  [k \in DOMAIN a \cup DOMAIN b |-> IF k \in DOMAIN b THEN b[k] ELSE a[k]]

\* the columns an INSERT or UPDATE may set
Columns ==
  {"category", "data", "confidence", "needs_review", "archived",
   "linked_entries", "user_id", "updated_at"}

\* the table's constraints on a row: category NOT NULL with its CHECK, data NOT NULL
RowOk(row) ==
  /\ "category" \in DOMAIN row
  /\ row.category \in Categories
  /\ "data" \in DOMAIN row

\* a column left out of an INSERT takes its DEFAULT
InsertRow(values, id, t) ==
  [id |-> id,
   category |-> IF "category" \in DOMAIN values THEN values.category ELSE "null",
   data |-> IF "data" \in DOMAIN values THEN values.data ELSE EmptyObj,
   confidence |-> values.confidence,
   needs_review |-> IF "needs_review" \in DOMAIN values THEN values.needs_review ELSE "false",
   archived |-> IF "archived" \in DOMAIN values THEN values.archived ELSE "false",
   linked_entries |-> IF "linked_entries" \in DOMAIN values THEN values.linked_entries ELSE {},
   user_id |-> values.user_id,
   created_at |-> t,
   updated_at |-> t]

\* an UPDATE that leaves updated_at as it is
UpdateRowKeepStamp(row, values) ==
  [c \in DOMAIN row |-> IF c \in DOMAIN values \ {"updated_at"} THEN values[c]
                         ELSE row[c]]

\* UPDATE ... SET: the named columns take the new values, the others stay
UpdateRow(row, values) ==
  [c \in DOMAIN row |-> IF c \in DOMAIN values THEN values[c] ELSE row[c]]

\* the filter without its owner condition
MatchIdAnyUser(rows, id, user) ==
  {r \in rows : r.id = id}

\* .eq('id', id).eq('user_id', user.id)
MatchIdUser(rows, id, user) ==
  {r \in rows : r.id = id /\ r.user_id = user}

\* .single(): the one row, or error PGRST116 when the result is not exactly one row
Single(rows, dbOk) ==
  IF ~dbOk THEN [data |-> NoRow, error |-> "unavailable"]
  ELSE IF Cardinality(rows) = 1
       THEN [data |-> CHOOSE r \in rows : TRUE, error |-> "none"]
       ELSE [data |-> NoRow, error |-> "PGRST116"]

(***************************************************************************)
(* What a handler produces: the HTTP response, the table afterwards, and   *)
(* how many store reads, store writes and outbound calls it made.          *)
(***************************************************************************)
Outcome(status, error, entry, list, rows, reads, writes, calls) ==
  [status |-> status, error |-> error, entry |-> entry, list |-> list,
   text |-> <<>>, flag |-> FALSE,
   rows |-> rows, reads |-> reads, writes |-> writes, calls |-> calls]

\* { error: 'Unauthorized' }, status 401, before anything else is done
Unauthorized(rows) ==
  Outcome(401, "Unauthorized", NoRow, <<>>, rows, 0, 0, 0)

(***************************************************************************)
(* GET /api/entries                                                        *)
(***************************************************************************)
\* .order('created_at', { ascending: false })
RECURSIVE OrderByCreatedDesc(_)
OrderByCreatedDesc(rows) ==
  IF rows = {} THEN <<>>
  ELSE LET newest == CHOOSE r \in rows :
                       \A q \in rows :
                         \/ q.created_at < r.created_at
                         \/ (q.created_at = r.created_at /\ q.id <= r.id)
       IN <<newest>> \o OrderByCreatedDesc(rows \ {newest})

\* the query's filters; a parameter that is not given is "" (searchParams.get is null)
ListFilter(rows, user, category, archivedParam, needsReview) ==
  {r \in rows :
     /\ r.user_id = user
     /\ (category # "" => r.category = category)
     /\ IF archivedParam = "only" THEN r.archived = "true"
        ELSE IF archivedParam # "true" THEN r.archived = "false"
        ELSE TRUE
     /\ (needsReview => r.needs_review = "true")}

ListEntries(rows, caller, category, archivedParam, needsReviewParam, dbOk) ==
  IF caller = Anon THEN Unauthorized(rows)
  ELSE IF ~dbOk
       THEN Outcome(500, "Failed to fetch entries", NoRow, <<>>, rows, 1, 0, 0)
       ELSE Outcome(200, "", NoRow,
                    OrderByCreatedDesc(
                      ListFilter(rows, caller, category, archivedParam,
                                 needsReviewParam = "true")),
                    rows, 1, 0, 0)

(***************************************************************************)
(* POST /api/entries                                                       *)
(***************************************************************************)
\* x ?? d : d when the key is absent or its value is null
Coalesce(body, key, default) ==
  IF key \in DOMAIN body /\ body[key] # "null" THEN body[key] ELSE default

\* body.confidence ?? 1.0, in hundredths
ManualConfidence == 100

\* an insert that stores an empty payload
CreateValuesEmptyData(body, user) ==
  Merge([k \in DOMAIN body \cap {"category"} |-> body[k]],
        [data |-> EmptyObj,
         confidence |-> IF "confidence" \in DOMAIN body
                        THEN body.confidence ELSE ManualConfidence,
         needs_review |-> Coalesce(body, "needs_review", "false"),
         archived |-> "false",
         linked_entries |-> IF "linked_entries" \in DOMAIN body
                            THEN body.linked_entries ELSE {},
         user_id |-> user])

\* the object handed to .insert(); a key whose value is undefined is not sent
CreateValues(body, user) ==
  Merge([k \in DOMAIN body \cap {"category", "data"} |-> body[k]],
        [confidence |-> IF "confidence" \in DOMAIN body
                        THEN body.confidence ELSE ManualConfidence,
         needs_review |-> Coalesce(body, "needs_review", "false"),
         archived |-> "false",
         linked_entries |-> IF "linked_entries" \in DOMAIN body
                            THEN body.linked_entries ELSE {},
         user_id |-> user])

CreateEntry(rows, caller, jsonOk, body, id, t, dbOk) ==
  IF caller = Anon THEN Unauthorized(rows)
  ELSE IF ~jsonOk
       THEN Outcome(400, "Invalid request body", NoRow, <<>>, rows, 0, 0, 0)
       ELSE LET values == CreateValues(body, caller)
                row == InsertRow(values, id, t)
            IN IF dbOk /\ RowOk(values)
               THEN Outcome(200, "", row, <<>>, rows \cup {row}, 0, 1, 0)
               ELSE Outcome(500, "Failed to create entry", NoRow, <<>>, rows, 0, 1, 0)

(***************************************************************************)
(* GET /api/entries/[id]                                                   *)
(***************************************************************************)
GetEntry(rows, caller, id, dbOk) ==
  IF caller = Anon THEN Unauthorized(rows)
  ELSE LET res == Single(MatchIdUser(rows, id, caller), dbOk)
       IN IF res.error # "none"
          THEN IF res.error = "PGRST116"
               THEN Outcome(404, "Entry not found", NoRow, <<>>, rows, 1, 0, 0)
               ELSE Outcome(500, "Failed to fetch entry", NoRow, <<>>, rows, 1, 0, 0)
          ELSE Outcome(200, "", res.data, <<>>, rows, 1, 0, 0)

(***************************************************************************)
(* PATCH /api/entries/[id]                                                 *)
(***************************************************************************)
PatchFields == {"data", "category", "needs_review", "archived", "linked_entries"}

\* an update that hands every key of the body to the store
PatchUpdateAll(body, t) ==
  Merge([updated_at |-> t], body)

\* updateData: updated_at, and each of the five fields the body supplies
PatchUpdateData(body, t) ==
  Merge([updated_at |-> t],
        [k \in DOMAIN body \cap PatchFields |-> body[k]])

PatchEntry(rows, caller, id, jsonOk, body, t, dbOk) ==
  IF caller = Anon THEN Unauthorized(rows)
  ELSE IF ~jsonOk
       THEN Outcome(400, "Invalid request body", NoRow, <<>>, rows, 0, 0, 0)
       ELSE LET updateData == PatchUpdateData(body, t)
                matched == MatchIdUser(rows, id, caller)
                updated == {UpdateRow(r, updateData) : r \in matched}
                ok == dbOk /\ \A r \in updated : RowOk(r)
                res == Single(updated, ok)
            IN IF res.error # "none"
               THEN Outcome(500, "Failed to update entry", NoRow, <<>>, rows, 0, 1, 0)
               ELSE Outcome(200, "", res.data, <<>>,
                            (rows \ matched) \cup updated, 0, 1, 0)

(***************************************************************************)
(* DELETE /api/entries/[id]                                                *)
(***************************************************************************)
DeleteEntry(rows, caller, id, dbOk) ==
  IF caller = Anon THEN Unauthorized(rows)
  ELSE IF ~dbOk
       THEN Outcome(500, "Failed to delete entry", NoRow, <<>>, rows, 0, 1, 0)
       ELSE Outcome(200, "", NoRow, <<>>,
                    rows \ MatchIdUser(rows, id, caller), 0, 1, 0)

(***************************************************************************)
(* Text.  A model reply is a sequence of tokens: the characters the        *)
(* regular expressions of the handlers tell apart.  Key(k) is "k": and     *)
(* Str(v) is "v"; Txt(v) is prose without quotes or whitespace.            *)
(***************************************************************************)
LB == [t |-> "{"]
RB == [t |-> "}"]
SP == [t |-> " "]
NL == [t |-> "nl"]
COMMA == [t |-> ","]
\* three backquotes
FENCE == [t |-> "fence"]
JSONW == [t |-> "json"]
Key(k) == [t |-> "key", v |-> k]
Str(v) == [t |-> "str", v |-> v]
Txt(v) == [t |-> "txt", v |-> v]

\* strings of the model that hold a brace character
BracedText == {"use {x}", "{draft}"}

\* \s
IsSpace(tok) == tok \in {SP, NL}

\* a token with a { or } in it: what [^{}] refuses
HasBrace(tok) ==
  \/ tok \in {LB, RB}
  \/ (tok.t \in {"str", "txt"} /\ tok.v \in BracedText)

\* the token at i, or a token that matches nothing past the end
At(s, i) == IF i \in 1..Len(s) THEN s[i] ELSE [t |-> "eof"]

\* \s* from i: the first index at or after i that is not whitespace
RECURSIVE SkipSpace(_, _)
SkipSpace(s, i) ==
  IF i <= Len(s) /\ IsSpace(s[i]) THEN SkipSpace(s, i + 1) ELSE i

\* [^{}]* from i: the first index at or after i that holds a brace
RECURSIVE SkipNoBrace(_, _)
SkipNoBrace(s, i) ==
  IF i <= Len(s) /\ ~HasBrace(s[i]) THEN SkipNoBrace(s, i + 1) ELSE i

\* "[^"]+" : a string literal that is not empty
IsNonEmptyStr(tok) == tok.t = "str" /\ tok.v # ""

\* s[i..j]
Slice(s, i, j) == SubSeq(s, i, j)

\* String.prototype.trim
RECURSIVE TrimLeft(_)
TrimLeft(s) ==
  IF s # <<>> /\ IsSpace(Head(s)) THEN TrimLeft(Tail(s)) ELSE s

RECURSIVE TrimRight(_)
TrimRight(s) ==
  IF s # <<>> /\ IsSpace(s[Len(s)]) THEN TrimRight(SubSeq(s, 1, Len(s) - 1)) ELSE s

Trim(s) == TrimLeft(TrimRight(s))

(***************************************************************************)
(* The action-block patterns.  Each matcher gives, for a start index, the  *)
(* index of the last token of the match, or 0 when there is no match       *)
(* starting there.                                                         *)
(***************************************************************************)
\* \{"action":\s*"update",\s*"updates":\s*\{[^{}]*\}\}
MatchUpdateTight(s, i) ==
  LET a == SkipSpace(s, i + 2)
      b == SkipSpace(s, a + 2)
      c == SkipSpace(s, b + 1)
      d == SkipNoBrace(s, c + 1)
  IN IF /\ At(s, i) = LB
        /\ At(s, i + 1) = Key("action")
        /\ At(s, a) = Str("update")
        /\ At(s, a + 1) = COMMA
        /\ At(s, b) = Key("updates")
        /\ At(s, c) = LB
        /\ At(s, d) = RB
        /\ At(s, d + 1) = RB
     THEN d + 1 ELSE 0

\* \{"action":\s*"[^"]+",\s*"<key>":\s*\{[^{}]*\}\s*\}  for a key among keys
MatchActionObject(s, i, keys) ==
  LET a == SkipSpace(s, i + 2)
      b == SkipSpace(s, a + 2)
      c == SkipSpace(s, b + 1)
      d == SkipNoBrace(s, c + 1)
      e == SkipSpace(s, d + 1)
  IN IF /\ At(s, i) = LB
        /\ At(s, i + 1) = Key("action")
        /\ IsNonEmptyStr(At(s, a))
        /\ At(s, a + 1) = COMMA
        /\ At(s, b) \in {Key(k) : k \in keys}
        /\ At(s, c) = LB
        /\ At(s, d) = RB
        /\ At(s, e) = RB
     THEN e ELSE 0

\* \{"action":\s*"[^"]+",\s*"url":\s*"[^"]+"\s*\}
MatchActionUrl(s, i) ==
  LET a == SkipSpace(s, i + 2)
      b == SkipSpace(s, a + 2)
      c == SkipSpace(s, b + 1)
      d == SkipSpace(s, c + 1)
  IN IF /\ At(s, i) = LB
        /\ At(s, i + 1) = Key("action")
        /\ IsNonEmptyStr(At(s, a))
        /\ At(s, a + 1) = COMMA
        /\ At(s, b) = Key("url")
        /\ IsNonEmptyStr(At(s, c))
        /\ At(s, d) = RB
     THEN d ELSE 0

\* [\s\S]*?\}\s*<fence> from j: the first } at or after j that whitespace and a fence follow
RECURSIVE LazyCloseFence(_, _)
LazyCloseFence(s, j) ==
  IF j > Len(s) THEN 0
  ELSE IF s[j] = RB /\ At(s, SkipSpace(s, j + 1)) = FENCE THEN j
  ELSE LazyCloseFence(s, j + 1)

\* <fence>json\s*(\{[\s\S]*?\})\s*<fence> : the group is s[open..close]
FenceOpen(s, i) == SkipSpace(s, i + 2)
FenceClose(s, i) == LazyCloseFence(s, FenceOpen(s, i) + 1)
MatchFenced(s, i) ==
  IF /\ At(s, i) = FENCE
     /\ At(s, i + 1) = JSONW
     /\ At(s, FenceOpen(s, i)) = LB
     /\ FenceClose(s, i) # 0
  THEN SkipSpace(s, FenceClose(s, i) + 1) ELSE 0

NoMatch == [from |-> 0, to |-> 0, gfrom |-> 0, gto |-> 0]

\* String.prototype.match without the g flag: the leftmost start that matches
Leftmost(s, M(_, _)) ==
  LET hits == {i \in 1..Len(s) : M(s, i) # 0}
  IN IF hits = {} THEN 0 ELSE CHOOSE i \in hits : \A j \in hits : i <= j

TightAt(s, i) == MatchUpdateTight(s, i)
UpdatesAt(s, i) == MatchActionObject(s, i, {"updates"})
FencedAt(s, i) == MatchFenced(s, i)

\* the task route's one pattern: its first alternative, else its second
TaskAt(s, i) ==
  IF MatchActionObject(s, i, {"updates", "url"}) # 0
  THEN MatchActionObject(s, i, {"updates", "url"})
  ELSE MatchActionUrl(s, i)

\* jsonPatterns, tried in order; the first that matches anywhere wins
MatchJsonPatterns(s) ==
  IF Leftmost(s, TightAt) # 0
  THEN [from |-> Leftmost(s, TightAt), to |-> TightAt(s, Leftmost(s, TightAt)),
        gfrom |-> 0, gto |-> 0]
  ELSE IF Leftmost(s, UpdatesAt) # 0
  THEN [from |-> Leftmost(s, UpdatesAt), to |-> UpdatesAt(s, Leftmost(s, UpdatesAt)),
        gfrom |-> 0, gto |-> 0]
  ELSE IF Leftmost(s, FencedAt) # 0
  THEN [from |-> Leftmost(s, FencedAt), to |-> FencedAt(s, Leftmost(s, FencedAt)),
        gfrom |-> FenceOpen(s, Leftmost(s, FencedAt)),
        gto |-> FenceClose(s, Leftmost(s, FencedAt))]
  ELSE NoMatch

\* assistantMessage.match(...) of the task route
MatchTaskPattern(s) ==
  IF Leftmost(s, TaskAt) # 0
  THEN [from |-> Leftmost(s, TaskAt), to |-> TaskAt(s, Leftmost(s, TaskAt)),
        gfrom |-> 0, gto |-> 0]
  ELSE NoMatch

\* match[1] || match[0]
MatchedJson(s, m) ==
  IF m.gfrom # 0 THEN Slice(s, m.gfrom, m.gto) ELSE Slice(s, m.from, m.to)

\* .replace(/<fence>json\s*|\s*<fence>/g, '')
RECURSIVE StripFences(_)
StripFences(s) ==
  IF s = <<>> THEN <<>>
  ELSE IF At(s, 1) = FENCE /\ At(s, 2) = JSONW
       THEN StripFences(SubSeq(s, SkipSpace(s, 3), Len(s)))
  ELSE IF At(s, SkipSpace(s, 1)) = FENCE
       THEN StripFences(SubSeq(s, SkipSpace(s, 1) + 1, Len(s)))
  ELSE <<Head(s)>> \o StripFences(Tail(s))

\* assistantMessage.replace(jsonMatch[0], '').trim()
RemoveMatch(s, m) ==
  Trim(SubSeq(s, 1, m.from - 1) \o SubSeq(s, m.to + 1, Len(s)))

(***************************************************************************)
(* JSON.parse, for the objects the replies of the model hold: members      *)
(* whose value is a string or an object of string members.  A parsed       *)
(* object is its string members (strs) and its object members (objs).      *)
(***************************************************************************)
ParseFail == [ok |-> FALSE, strs |-> EmptyObj, objs |-> EmptyObj]

\* the first index at or after i that holds a brace token
RECURSIVE NextBrace(_, _)
NextBrace(s, i) ==
  IF i <= Len(s) /\ s[i] \notin {LB, RB} THEN NextBrace(s, i + 1) ELSE i

Put(f, k, v) == Merge(f, [x \in {k} |-> v])
Drop(f, k) == [x \in DOMAIN f \ {k} |-> f[x]]

RECURSIVE FlatMember(_, _, _)
RECURSIVE FlatNext(_, _, _)
\* "key": "value" expected at i
FlatMember(s, i, acc) ==
  LET j == SkipSpace(s, i)
      k == SkipSpace(s, j + 1)
  IN IF At(s, j).t = "key" /\ At(s, k).t = "str"
     THEN FlatNext(s, k + 1, Put(acc, s[j].v, s[k].v))
     ELSE [ok |-> FALSE, map |-> EmptyObj]
\* a comma or the end expected at i
FlatNext(s, i, acc) ==
  LET j == SkipSpace(s, i)
  IN IF j > Len(s) THEN [ok |-> TRUE, map |-> acc]
     ELSE IF At(s, j) = COMMA THEN FlatMember(s, j + 1, acc)
     ELSE [ok |-> FALSE, map |-> EmptyObj]

\* the members between the braces of an object of strings
ParseFlat(s) ==
  IF SkipSpace(s, 1) > Len(s) THEN [ok |-> TRUE, map |-> EmptyObj]
  ELSE FlatMember(s, 1, EmptyObj)

RECURSIVE TopMember(_, _, _, _)
RECURSIVE TopNext(_, _, _, _)
TopMember(s, i, strs, objs) ==
  LET j == SkipSpace(s, i)
      k == SkipSpace(s, j + 1)
      d == NextBrace(s, k + 1)
      inner == ParseFlat(SubSeq(s, k + 1, d - 1))
  IN IF At(s, j).t # "key" THEN ParseFail
     ELSE IF At(s, k).t = "str"
          THEN TopNext(s, k + 1, Put(strs, s[j].v, s[k].v), Drop(objs, s[j].v))
     ELSE IF At(s, k) = LB /\ At(s, d) = RB /\ inner.ok
          THEN TopNext(s, d + 1, Drop(strs, s[j].v), Put(objs, s[j].v, inner.map))
     ELSE ParseFail
TopNext(s, i, strs, objs) ==
  LET j == SkipSpace(s, i)
  IN IF At(s, j) = RB
     THEN IF SkipSpace(s, j + 1) > Len(s)
          THEN [ok |-> TRUE, strs |-> strs, objs |-> objs]
          ELSE ParseFail
     ELSE IF At(s, j) = COMMA THEN TopMember(s, j + 1, strs, objs)
     ELSE ParseFail

JsonParse(s) ==
  LET i == SkipSpace(s, 1)
  IN IF At(s, i) # LB THEN ParseFail
     ELSE IF At(s, SkipSpace(s, i + 1)) = RB
          THEN IF SkipSpace(s, SkipSpace(s, i + 1) + 1) > Len(s)
               THEN [ok |-> TRUE, strs |-> EmptyObj, objs |-> EmptyObj]
               ELSE ParseFail
     ELSE TopMember(s, i + 1, EmptyObj, EmptyObj)

\* action.action === 'update' && action.updates
IsUpdateAction(action) ==
  /\ "action" \in DOMAIN action.strs
  /\ action.strs.action = "update"
  /\ "updates" \in DOMAIN action.objs

(***************************************************************************)
(* Strings the handlers look into character by character.                  *)
(***************************************************************************)
\* JS null among strings
Null == "null"

CharTable ==
  ("today" :> <<"t", "o", "d", "a", "y">>) @@
  ("Tomorrow" :> <<"T", "o", "m", "o", "r", "r", "o", "w">>) @@
  ("tomorrow" :> <<"t", "o", "m", "o", "r", "r", "o", "w">>) @@
  ("next week" :> <<"n", "e", "x", "t", " ", "w", "e", "e", "k">>) @@
  ("tomorrow 3pm" :> <<"t", "o", "m", "o", "r", "r", "o", "w", " ", "3", "p", "m">>) @@
  ("5:30 pm" :> <<"5", ":", "3", "0", " ", "p", "m">>) @@
  ("12am" :> <<"1", "2", "a", "m">>) @@
  ("2025-03-01" :> <<"2", "0", "2", "5", "-", "0", "3", "-", "0", "1">>) @@
  ("someday" :> <<"s", "o", "m", "e", "d", "a", "y">>) @@
  ("Ann" :> <<"A", "n", "n">>) @@
  ("ann" :> <<"a", "n", "n">>) @@
  ("Annabel" :> <<"A", "n", "n", "a", "b", "e", "l">>) @@
  ("Bob" :> <<"B", "o", "b">>) @@
  ("an" :> <<"a", "n">>) @@
  ("Add to notes" :> <<"A", "d", "d", " ", "t", "o", " ", "n", "o", "t", "e", "s">>) @@
  ("add to notes" :> <<"a", "d", "d", " ", "t", "o", " ", "n", "o", "t", "e", "s">>) @@
  ("set priority" :> <<"s", "e", "t", " ", "p", "r", "i", "o", "r", "i", "t", "y">>)

\* the characters of a string; a string not listed holds nothing a handler looks for
Chars(s) == IF s \in DOMAIN CharTable THEN CharTable[s] ELSE <<s>>

LowerChar(c) ==
  CASE c = "A" -> "a"
       [] c = "B" -> "b"
       [] c = "T" -> "t"
       [] OTHER -> c

\* String.prototype.toLowerCase
ToLower(cs) == [i \in 1..Len(cs) |-> LowerChar(cs[i])]

RECURSIVE TrimCharsLeft(_)
TrimCharsLeft(cs) ==
  IF cs # <<>> /\ Head(cs) = " " THEN TrimCharsLeft(Tail(cs)) ELSE cs

RECURSIVE TrimCharsRight(_)
TrimCharsRight(cs) ==
  IF cs # <<>> /\ cs[Len(cs)] = " "
  THEN TrimCharsRight(SubSeq(cs, 1, Len(cs) - 1)) ELSE cs

TrimChars(cs) == TrimCharsLeft(TrimCharsRight(cs))

\* String.prototype.includes
Includes(hay, needle) ==
  \E i \in 1..(Len(hay) - Len(needle) + 1) :
    SubSeq(hay, i, i + Len(needle) - 1) = needle

IsDigit(c) == c \in {"0", "1", "2", "3", "4", "5", "6", "7", "8", "9"}

DigitVal(c) ==
  CASE c = "0" -> 0
       [] c = "1" -> 1
       [] c = "2" -> 2
       [] c = "3" -> 3
       [] c = "4" -> 4
       [] c = "5" -> 5
       [] c = "6" -> 6
       [] c = "7" -> 7
       [] c = "8" -> 8
       [] c = "9" -> 9

CharAt(cs, i) == IF i \in 1..Len(cs) THEN cs[i] ELSE "eof"

RECURSIVE SkipBlank(_, _)
SkipBlank(cs, i) ==
  IF CharAt(cs, i) = " " THEN SkipBlank(cs, i + 1) ELSE i

(***************************************************************************)
(* Time.  The clock counts minutes; Iso(t) is the ISO string of minute t.  *)
(***************************************************************************)
MinutesPerHour == 60
MinutesPerDay == 1440

Iso(t) == "T" \o ToString(t)

StartOfDay(t) == t - (t % MinutesPerDay)

\* new Date(input) for the strings Date can parse: the minute it denotes
DateTable == ("2025-03-01" :> 84960)

(***************************************************************************)
(* parseNaturalDate                                                        *)
(***************************************************************************)
\* lowered.match(/(\d{1,2})(?::(\d{2}))?\s*(am|pm)?/): the leftmost digit starts it
TimeMatch(cs) ==
  LET starts == {i \in 1..Len(cs) : IsDigit(cs[i])}
      i == CHOOSE x \in starts : \A y \in starts : x <= y
      two == IsDigit(CharAt(cs, i + 1))
      e == IF two THEN i + 2 ELSE i + 1
      hasMin == /\ CharAt(cs, e) = ":"
                /\ IsDigit(CharAt(cs, e + 1))
                /\ IsDigit(CharAt(cs, e + 2))
      f == SkipBlank(cs, IF hasMin THEN e + 3 ELSE e)
      mer == <<CharAt(cs, f), CharAt(cs, f + 1)>>
  IN IF starts = {} THEN [found |-> FALSE, hours |-> 0, minutes |-> 0, meridiem |-> ""]
     ELSE [found |-> TRUE,
           hours |-> IF two THEN 10 * DigitVal(cs[i]) + DigitVal(cs[i + 1])
                     ELSE DigitVal(cs[i]),
           minutes |-> IF hasMin
                       THEN 10 * DigitVal(cs[e + 1]) + DigitVal(cs[e + 2]) ELSE 0,
           meridiem |-> IF mer = <<"a", "m">> THEN "am"
                        ELSE IF mer = <<"p", "m">> THEN "pm" ELSE ""]

\* the hour after the am/pm adjustment
Hours24(tm) ==
  IF tm.meridiem = "pm" /\ tm.hours < 12 THEN tm.hours + 12
  ELSE IF tm.meridiem = "am" /\ tm.hours = 12 THEN 0
  ELSE tm.hours

\* the ISO string, or Null
parseNaturalDate(input, t) ==
  LET lowered == TrimChars(ToLower(Chars(input)))
      tm == TimeMatch(lowered)
      base == IF Includes(lowered, Chars("tomorrow")) THEN t + MinutesPerDay ELSE t
  IN IF lowered = Chars("today") THEN Iso(t)
     ELSE IF lowered = Chars("tomorrow") THEN Iso(t + MinutesPerDay)
     ELSE IF lowered = Chars("next week") THEN Iso(t + 7 * MinutesPerDay)
     ELSE IF tm.found
          THEN Iso(StartOfDay(base) + Hours24(tm) * MinutesPerHour + tm.minutes)
     ELSE IF input \in DOMAIN DateTable THEN Iso(DateTable[input])
     ELSE Null

(***************************************************************************)
(* The chat routes: /api/ideas/[id]/chat, /api/projects/[id]/chat and      *)
(* /api/task/[id]/chat.  A chat request reads the entry, awaits the model, *)
(* and only then writes: it is in flight between the two.                  *)
(***************************************************************************)
ChatKinds == {"ideas", "projects", "tasks"}

\* the 404 text of each route
NotFoundText(kind) ==
  CASE kind = "ideas" -> "Idea not found"
    [] kind = "projects" -> "Project not found"
    [] kind = "tasks" -> "Task not found"

\* the 400 text of each route
WrongKindText(kind) ==
  CASE kind = "ideas" -> "Entry is not an idea"
    [] kind = "projects" -> "Entry is not a project"
    [] kind = "tasks" -> "Entry is not a task"

\* a JS value used as a condition
Truthy(v) == v \notin {"", Null}

\* the statuses the project route lets through
ProjectStatuses == {"active", "on-hold", "completed"}

\* if (updates.status && ![...].includes(updates.status)) delete updates.status
ValidateStatus(updates) ==
  IF /\ "status" \in DOMAIN updates
     /\ Truthy(updates.status)
     /\ updates.status \notin ProjectStatuses
  THEN Drop(updates, "status")
  ELSE updates

\* an append that looks for the phrase in the message as it was typed
AppendNotesExactCase(updates, data, message) ==
  IF /\ "notes" \in DOMAIN updates
     /\ Truthy(updates.notes)
     /\ "notes" \in DOMAIN data
     /\ Truthy(data.notes)
     /\ Includes(Chars(message), Chars("add to notes"))
  THEN Put(updates, "notes", data.notes \o "\n" \o updates.notes)
  ELSE updates

\* notes are appended when the user's message says "add to notes"
AppendNotes(updates, data, message) ==
  IF /\ "notes" \in DOMAIN updates
     /\ Truthy(updates.notes)
     /\ "notes" \in DOMAIN data
     /\ Truthy(data.notes)
     /\ Includes(ToLower(Chars(message)), Chars("add to notes"))
  THEN Put(updates, "notes", data.notes \o "\n" \o updates.notes)
  ELSE updates

\* a resolver that drops a deadline it cannot resolve
ResolveDeadlineOrDrop(updates, t) ==
  IF "deadline" \in DOMAIN updates /\ Truthy(updates.deadline)
  THEN IF parseNaturalDate(updates.deadline, t) # Null
       THEN Put(updates, "deadline", parseNaturalDate(updates.deadline, t))
       ELSE Drop(updates, "deadline")
  ELSE updates

\* a deadline is replaced by its resolved date when there is one
ResolveDeadline(updates, t) ==
  IF /\ "deadline" \in DOMAIN updates
     /\ Truthy(updates.deadline)
     /\ parseNaturalDate(updates.deadline, t) # Null
  THEN Put(updates, "deadline", parseNaturalDate(updates.deadline, t))
  ELSE updates

\* what each route does to action.updates before it merges them
AdjustUpdates(kind, updates, data, message, t) ==
  CASE kind = "ideas" -> updates
    [] kind = "projects" -> ValidateStatus(updates)
    [] kind = "tasks" -> ResolveDeadline(AppendNotes(updates, data, message), t)

\* a catch that still strips the matched block from the reply
ParseFailedStripped(data, reply, m) ==
  [matched |-> TRUE, parsed |-> FALSE, write |-> FALSE,
   data |-> data, fields |-> EmptyObj, text |-> RemoveMatch(reply, m)]

\* catch (err): nothing is written and finalResponse stays the model's message
ParseFailed(data, reply, m) ==
  [matched |-> TRUE, parsed |-> FALSE, write |-> FALSE,
   data |-> data, fields |-> EmptyObj, text |-> reply]

\* from the model's reply to what is written and what is shown
ChatPlan(kind, data, message, reply, t) ==
  LET m == IF kind = "tasks" THEN MatchTaskPattern(reply) ELSE MatchJsonPatterns(reply)
      json == IF kind = "tasks" THEN MatchedJson(reply, m)
              ELSE Trim(StripFences(MatchedJson(reply, m)))
      action == JsonParse(json)
      updates == AdjustUpdates(kind, action.objs.updates, data, message, t)
  IN IF m = NoMatch
     THEN [matched |-> FALSE, parsed |-> FALSE, write |-> FALSE,
           data |-> data, fields |-> EmptyObj, text |-> reply]
     ELSE IF ~action.ok
     THEN ParseFailed(data, reply, m)
     ELSE IF IsUpdateAction(action)
     THEN [matched |-> TRUE, parsed |-> TRUE, write |-> TRUE,
           data |-> Merge(data, updates), fields |-> updates,
           text |-> RemoveMatch(reply, m)]
     ELSE [matched |-> TRUE, parsed |-> TRUE, write |-> FALSE,
           data |-> data, fields |-> EmptyObj, text |-> RemoveMatch(reply, m)]

\* an update that is stored although the store reports an error
WriteDataAnyway(rows, caller, id, data, t, dbOk) ==
  {IF r \in MatchIdUser(rows, id, caller)
   THEN UpdateRow(r, [data |-> data, updated_at |-> t]) ELSE r : r \in rows}

\* .update({ data, updated_at }).eq('id', id).eq('user_id', user.id)
WriteData(rows, caller, id, data, t, dbOk) ==
  IF dbOk
  THEN {IF r \in MatchIdUser(rows, id, caller)
        THEN UpdateRow(r, [data |-> data, updated_at |-> t]) ELSE r : r \in rows}
  ELSE rows

\* the first half of a chat request: who calls, which entry, the request body
ChatFetch(rows, kind, caller, id, jsonOk, dbOk) ==
  IF caller = Anon THEN Unauthorized(rows)
  ELSE LET res == Single(MatchIdUser(rows, id, caller), dbOk)
       IN IF res.error # "none"
          THEN Outcome(404, NotFoundText(kind), NoRow, <<>>, rows, 1, 0, 0)
          ELSE IF res.data.category # kind
          THEN Outcome(400, WrongKindText(kind), NoRow, <<>>, rows, 1, 0, 0)
          ELSE IF ~jsonOk
          THEN Outcome(500, "Failed to process chat message", NoRow, <<>>, rows, 1, 0, 0)
          ELSE Outcome(0, "", res.data, <<>>, rows, 1, 0, 0)

\* the distance lookup of the task route is made when both ends are known
TaskLooksUpDistance(req) ==
  req.kind = "tasks" /\ req.coords /\ "location" \in DOMAIN req.data
    /\ Truthy(req.data.location)

\* a second half that computes the payload from the row as it is stored now
ChatReplyFresh(rows, req, callOk, reply, t, dbOk) ==
  LET stored == {r.data : r \in MatchIdUser(rows, req.id, req.caller)}
      data == IF stored = {} THEN req.data ELSE CHOOSE d \in stored : TRUE
      plan == ChatPlan(req.kind, data, req.message, reply, t)
      reads == IF req.kind = "tasks" THEN 2 ELSE 1
      calls == IF TaskLooksUpDistance(req) THEN 2 ELSE 1
  IN IF ~callOk
     THEN Outcome(500, "Failed to process chat message", NoRow, <<>>, rows,
                  reads, 0, calls)
     ELSE [Outcome(200, "", NoRow, <<>>,
                   IF plan.write
                   THEN WriteData(rows, req.caller, req.id, plan.data, t, dbOk)
                   ELSE rows,
                   reads, IF plan.write THEN 1 ELSE 0, calls)
             EXCEPT !.text = plan.text, !.flag = plan.write /\ dbOk]

\* the second half: the model's reply, the write, the response
ChatReply(rows, req, callOk, reply, t, dbOk) ==
  LET plan == ChatPlan(req.kind, req.data, req.message, reply, t)
      reads == IF req.kind = "tasks" THEN 2 ELSE 1
      calls == IF TaskLooksUpDistance(req) THEN 2 ELSE 1
  IN IF ~callOk
     THEN Outcome(500, "Failed to process chat message", NoRow, <<>>, rows,
                  reads, 0, calls)
     ELSE [Outcome(200, "", NoRow, <<>>,
                   IF plan.write
                   THEN WriteData(rows, req.caller, req.id, plan.data, t, dbOk)
                   ELSE rows,
                   reads, IF plan.write THEN 1 ELSE 0, calls)
             EXCEPT !.text = plan.text, !.flag = plan.write /\ dbOk]

(***************************************************************************)
(* POST /api/capture.  The reply of the classifier is a token sequence in  *)
(* which Doc(r) is the text of the JSON object r.                          *)
(***************************************************************************)
Doc(r) == [t |-> "doc", d |-> r]

\* .replace(/^<fence>(?:json)?\s*\n?/i, '')
StripLeadingFence(s) ==
  IF At(s, 1) # FENCE THEN s
  ELSE LET i == IF At(s, 2) = JSONW THEN 3 ELSE 2
       IN SubSeq(s, SkipSpace(s, i), Len(s))

\* .replace(/\n?<fence>\s*$/i, '')
StripTrailingFence(s) ==
  LET t == TrimRight(s)
  IN IF t # <<>> /\ t[Len(t)] = FENCE
     THEN IF Len(t) > 1 /\ t[Len(t) - 1] = NL
          THEN SubSeq(t, 1, Len(t) - 2)
          ELSE SubSeq(t, 1, Len(t) - 1)
     ELSE s

\* a parse that takes the first JSON object it finds anywhere in the reply
ParseResultLenient(s) ==
  LET docs == {i \in 1..Len(s) : s[i].t = "doc"}
      first == CHOOSE i \in docs : \A j \in docs : i <= j
  IN IF docs # {}
     THEN [ok |-> TRUE, result |-> s[first].d]
     ELSE [ok |-> FALSE, result |-> EmptyObj]

\* JSON.parse of the classifier's reply
ParseResult(s) ==
  LET text == Trim(StripTrailingFence(StripLeadingFence(s)))
  IN IF Len(text) = 1 /\ text[1].t = "doc"
     THEN [ok |-> TRUE, result |-> text[1].d]
     ELSE [ok |-> FALSE, result |-> EmptyObj]

\* result.confidence < 0.6, in hundredths
ReviewThreshold == 60
\* a comparison that takes 0.6 itself for low
NeedsReviewAtMost(result) == result.confidence <= ReviewThreshold
NeedsReview(result) == result.confidence < ReviewThreshold

\* a lookup without the owner filter
LinkedPeopleAnyOwner(rows, user, mentioned) ==
  {r.id : r \in {p \in rows :
      /\ p.category = "people" /\ p.archived = "false"
      /\ "name" \in DOMAIN p.data
      /\ \E m \in mentioned :
           Includes(ToLower(Chars(p.data.name)), ToLower(Chars(m)))}}

\* the caller's unarchived people whose name holds a mentioned name
LinkedPeople(rows, user, mentioned) ==
  {r.id : r \in {p \in rows :
      /\ p.category = "people" /\ p.archived = "false" /\ p.user_id = user
      /\ "name" \in DOMAIN p.data
      /\ \E m \in mentioned :
           Includes(ToLower(Chars(p.data.name)), ToLower(Chars(m)))}}

CaptureValuesFromReply(result, linked, user) ==
  Merge([category |-> result.category, data |-> result.data,
         confidence |-> result.confidence,
         needs_review |-> IF result.confidence < ReviewThreshold
                          THEN "true" ELSE "false",
         archived |-> "false", linked_entries |-> linked, user_id |-> user],
        [k \in DOMAIN result \cap {"archived", "user_id"} |-> result[k]])

CaptureValues(result, linked, user) ==
  [category |-> result.category, data |-> result.data,
   confidence |-> result.confidence,
   needs_review |-> IF NeedsReview(result) THEN "true" ELSE "false",
   archived |-> "false", linked_entries |-> linked, user_id |-> user]

\* readOk: the select of the caller's people returns rows; its error is not looked at
CaptureEntry(rows, caller, jsonOk, text, callOk, reply, id, t, dbOk, readOk) ==
  IF caller = Anon THEN Unauthorized(rows)
  ELSE IF ~jsonOk
       THEN Outcome(500, "Internal server error", NoRow, <<>>, rows, 0, 0, 0)
  ELSE IF text = ""
       THEN Outcome(400, "Text is required", NoRow, <<>>, rows, 0, 0, 0)
  ELSE IF ~callOk
       THEN Outcome(500, "Internal server error", NoRow, <<>>, rows, 0, 0, 1)
  ELSE LET parsed == ParseResult(reply)
           result == parsed.result
           lookup == result.mentionedPeople # {}
           reads == IF lookup THEN 1 ELSE 0
           linked == IF lookup /\ readOk
                     THEN LinkedPeople(rows, caller, result.mentionedPeople)
                     ELSE {}
           values == CaptureValues(result, linked, caller)
           row == InsertRow(values, id, t)
       IN IF ~parsed.ok
          THEN Outcome(500, "Failed to parse AI response", NoRow, <<>>, rows, 0, 0, 1)
          ELSE IF dbOk /\ RowOk(values)
               THEN Outcome(200, "", row, <<>>, rows \cup {row}, reads, 1, 1)
               ELSE Outcome(500, "Failed to save entry", NoRow, <<>>, rows, reads, 1, 1)

(***************************************************************************)
(* The idea and project routes that produce a plan.  Plan(p) is the text   *)
(* of the JSON object of the plan named p; Bullets(b) is the text of the   *)
(* JSON array of the strings b.                                            *)
(***************************************************************************)
Plan(p) == [t |-> "plan", p |-> p]
Bullets(b) == [t |-> "arr", b |-> b]

\* JSON.parse of a text that is to hold one value of the given kind
ParseValue(s, kind) ==
  LET text == Trim(s)
  IN Len(text) = 1 /\ text[1].t = kind

\* .replace(/^<fence>(?:json)?\s*\n?/i, '').replace(/\n?<fence>\s*$/i, '').trim()
Unfence(s) == Trim(StripTrailingFence(StripLeadingFence(s)))

\* .eq('id', id).eq('user_id', user.id).eq('category', category)
MatchIdUserCategory(rows, id, user, category) ==
  {r \in MatchIdUser(rows, id, user) : r.category = category}

\* POST /api/ideas/[id]/save
ToggleSaved(rows, caller, id, t, dbOk, writeOk) ==
  IF caller = Anon THEN Unauthorized(rows)
  ELSE LET res == Single(MatchIdUser(rows, id, caller), dbOk)
           saved == "saved" \in DOMAIN res.data.data /\ res.data.data.saved = "true"
           newSaved == IF saved THEN "false" ELSE "true"
           data == Merge(res.data.data, [saved |-> newSaved])
       IN IF res.error # "none"
          THEN Outcome(404, "Idea not found", NoRow, <<>>, rows, 1, 0, 0)
          ELSE IF res.data.category # "ideas"
          THEN Outcome(400, "Entry is not an idea", NoRow, <<>>, rows, 1, 0, 0)
          ELSE IF ~writeOk
          THEN Outcome(500, "Failed to update", NoRow, <<>>, rows, 1, 1, 0)
          ELSE [Outcome(200, "", NoRow, <<>>,
                        WriteData(rows, caller, id, data, t, TRUE), 1, 1, 0)
                  EXCEPT !.flag = ~saved]

\* GET /api/ideas/[id]/suggestions
IdeaSuggestions(rows, caller, id, callOk, reply, dbOk) ==
  IF caller = Anon THEN Unauthorized(rows)
  ELSE LET res == Single(MatchIdUserCategory(rows, id, caller, "ideas"), dbOk)
       IN IF res.error # "none"
          THEN Outcome(404, "Idea not found", NoRow, <<>>, rows, 1, 0, 0)
          ELSE IF ~callOk
          THEN Outcome(500, "Failed to generate suggestions", NoRow, <<>>, rows, 1, 0, 1)
          ELSE IF ~ParseValue(reply, "plan")
          THEN Outcome(500, "Failed to parse AI response", NoRow, <<>>, rows, 1, 0, 1)
          ELSE [Outcome(200, "", res.data, <<>>, rows, 1, 0, 1)
                  EXCEPT !.text = Trim(reply)]

\* suggestions whose write also takes the project out of review
ProjectSuggestionsFiling(rows, caller, id, regenerate, callOk, reply, t, dbOk, writeOk) ==
  IF caller = Anon THEN Unauthorized(rows)
  ELSE LET res == Single(MatchIdUserCategory(rows, id, caller, "projects"), dbOk)
           data == res.data.data
           plan == Unfence(reply)
       IN IF res.error # "none"
          THEN Outcome(404, "Project not found", NoRow, <<>>, rows, 1, 0, 0)
          ELSE IF ~callOk \/ ~ParseValue(plan, "plan")
          THEN Outcome(500, "Failed to generate suggestions", NoRow, <<>>, rows, 1, 0, 1)
          ELSE [Outcome(200, "", res.data, <<>>,
                        {IF r \in MatchIdUser(rows, id, caller)
                         THEN UpdateRow(r, [data |-> Merge(data, [suggestions |-> plan[1].p]),
                                            needs_review |-> "false", updated_at |-> t])
                         ELSE r : r \in rows},
                        1, 1, 1)
                  EXCEPT !.text = plan]

\* GET /api/projects/[id]/suggestions
ProjectSuggestions(rows, caller, id, regenerate, callOk, reply, t, dbOk, writeOk) ==
  IF caller = Anon THEN Unauthorized(rows)
  ELSE LET res == Single(MatchIdUserCategory(rows, id, caller, "projects"), dbOk)
           data == res.data.data
           cached == "suggestions" \in DOMAIN data /\ Truthy(data.suggestions)
           plan == Unfence(reply)
       IN IF res.error # "none"
          THEN Outcome(404, "Project not found", NoRow, <<>>, rows, 1, 0, 0)
          ELSE IF cached /\ ~regenerate
          THEN [Outcome(200, "", res.data, <<>>, rows, 1, 0, 0)
                  EXCEPT !.text = <<Plan(data.suggestions)>>]
          ELSE IF ~callOk
          THEN Outcome(500, "Failed to generate suggestions", NoRow, <<>>, rows, 1, 0, 1)
          ELSE IF ~ParseValue(plan, "plan")
          THEN Outcome(500, "Failed to parse AI response", NoRow, <<>>, rows, 1, 0, 1)
          ELSE [Outcome(200, "", res.data, <<>>,
                        WriteData(rows, caller, id,
                                  Merge(data, [suggestions |-> plan[1].p]), t, writeOk),
                        1, 1, 1)
                  EXCEPT !.text = plan]

\* the plan the export routes fall back on when theirs does not parse
FallbackPlan == Plan("Unable to load summary")

\* POST /api/ideas/[id]/pdf: the plan comes in the form
PdfFromPlan(rows, caller, id, formOk, form, dbOk) ==
  IF caller = Anon THEN Unauthorized(rows)
  ELSE LET res == Single(MatchIdUser(rows, id, caller), dbOk)
       IN IF res.error # "none"
          THEN Outcome(404, "Idea not found", NoRow, <<>>, rows, 1, 0, 0)
          ELSE IF ~formOk
          THEN Outcome(500, "Failed to generate PDF", NoRow, <<>>, rows, 1, 0, 0)
          ELSE [Outcome(200, "", res.data, <<>>, rows, 1, 0, 0)
                  EXCEPT !.text = IF ParseValue(form, "plan")
                                  THEN Trim(form) ELSE <<FallbackPlan>>]

\* GET /api/ideas/[id]/pdf and the HTML export: the plan comes from the model
ExportFresh(rows, caller, id, callOk, reply, dbOk) ==
  IF caller = Anon THEN Unauthorized(rows)
  ELSE LET res == Single(MatchIdUser(rows, id, caller), dbOk)
       IN IF res.error # "none"
          THEN Outcome(404, "Idea not found", NoRow, <<>>, rows, 1, 0, 0)
          ELSE IF ~callOk
          THEN Outcome(500, "Failed to generate PDF", NoRow, <<>>, rows, 1, 0, 1)
          ELSE [Outcome(200, "", res.data, <<>>, rows, 1, 0, 1)
                  EXCEPT !.text = IF ParseValue(reply, "plan")
                                  THEN Trim(reply)
                                  ELSE <<Plan("Unable to generate summary")>>]

(***************************************************************************)
(* GET /api/digest                                                         *)
(***************************************************************************)
\* a read of the unarchived entries of a category, whoever owns them
OpenEntriesAnyOwner(rows, user, category, dbOk) ==
  IF dbOk
  THEN {r \in rows : r.category = category /\ r.archived = "false"}
  ELSE {}

\* the caller's unarchived entries of a category
OpenEntries(rows, user, category, dbOk) ==
  IF dbOk
  THEN {r \in rows : r.category = category /\ r.archived = "false" /\ r.user_id = user}
  ELSE {}

Digest(rows, caller, callOk, reply, dbOk) ==
  IF caller = Anon
  THEN Outcome(200, "", NoRow, <<>>, rows, 0, 0, 0)
  ELSE LET tasks == OpenEntries(rows, caller, "tasks", dbOk)
           projects == OpenEntries(rows, caller, "projects", dbOk)
           text == Unfence(reply)
       IN IF tasks = {} /\ projects = {}
          THEN Outcome(200, "", NoRow, <<>>, rows, 2, 0, 0)
          ELSE IF ~callOk
          THEN Outcome(500, "Failed to generate summary", NoRow, <<>>, rows, 2, 0, 1)
          ELSE Outcome(200, "", NoRow,
                       IF ParseValue(text, "arr") THEN text[1].b ELSE <<>>,
                       rows, 2, 0, 1)

\* the bullets the earlier copy of the route answers with when the parse fails
DefaultBullets ==
  <<"Review your pending tasks", "Check project progress", "Capture new ideas">>

\* the earlier copy of the route: the reply is parsed as it came, and a reply
\* that does not parse is replaced by the default bullets
DigestEarlier(rows, caller, callOk, reply, dbOk) ==
  IF caller = Anon
  THEN Outcome(200, "", NoRow, <<>>, rows, 0, 0, 0)
  ELSE LET tasks == OpenEntries(rows, caller, "tasks", dbOk)
           projects == OpenEntries(rows, caller, "projects", dbOk)
       IN IF tasks = {} /\ projects = {}
          THEN Outcome(200, "", NoRow, <<>>, rows, 2, 0, 0)
          ELSE IF ~callOk
          THEN Outcome(500, "Failed to generate summary", NoRow, <<>>, rows, 2, 0, 1)
          ELSE Outcome(200, "", NoRow,
                       IF ParseValue(reply, "arr") THEN Trim(reply)[1].b
                       ELSE DefaultBullets,
                       rows, 2, 0, 1)

(***************************************************************************)
(* GET /api/distance                                                       *)
(***************************************************************************)
\* the provider's answer: data.status and data.rows[0].elements[0].status;
\* an element that is not there has the status "missing"
Matrix(status, element) == [t |-> "matrix", top |-> status, el |-> element]

\* a handler that does not look at the element's status
DistanceTopOnly(rows, caller, origin, destination, keyOk, callOk, status, element) ==
  IF caller = Anon THEN Unauthorized(rows)
  ELSE IF origin = "" \/ destination = ""
       THEN Outcome(400, "Missing origin or destination", NoRow, <<>>, rows, 0, 0, 0)
  ELSE IF ~keyOk
       THEN Outcome(500, "API key not configured", NoRow, <<>>, rows, 0, 0, 0)
  ELSE IF ~callOk
       THEN Outcome(500, "Failed to calculate distance", NoRow, <<>>, rows, 0, 0, 1)
  ELSE IF status # "OK"
       THEN Outcome(400, status, NoRow, <<>>, rows, 0, 0, 1)
  ELSE [Outcome(200, "", NoRow, <<>>, rows, 0, 0, 1)
          EXCEPT !.text = <<Txt("12 mins"), Txt("5 km")>>]

Distance(rows, caller, origin, destination, keyOk, callOk, status, element) ==
  IF caller = Anon THEN Unauthorized(rows)
  ELSE IF origin = "" \/ destination = ""
       THEN Outcome(400, "Missing origin or destination", NoRow, <<>>, rows, 0, 0, 0)
  ELSE IF ~keyOk
       THEN Outcome(500, "API key not configured", NoRow, <<>>, rows, 0, 0, 0)
  ELSE IF ~callOk
       THEN Outcome(500, "Failed to calculate distance", NoRow, <<>>, rows, 0, 0, 1)
  ELSE IF status # "OK"
       THEN Outcome(400, status, NoRow, <<>>, rows, 0, 0, 1)
  ELSE IF element # "OK"
       THEN Outcome(400, "Could not calculate distance", NoRow, <<>>, rows, 0, 0, 1)
  ELSE [Outcome(200, "", NoRow, <<>>, rows, 0, 0, 1)
          EXCEPT !.text = <<Txt("12 mins"), Txt("5 km")>>]

(***************************************************************************)
(* State machine.                                                          *)
(***************************************************************************)
NoRequest == [op |-> "none"]

\* no page of the application is open
NoClient == [page |-> "none"]

\* whether the request body parses, the store answers, the outbound call succeeds
Conditions(jsonOk, dbOk, callOk) ==
  [jsonOk |-> jsonOk, dbOk |-> dbOk, callOk |-> callOk]

\* the response of a handler, with the request it answers
Answer(op, caller, id, req, reply, cond, out) ==
  [op |-> op, caller |-> caller, id |-> id, req |-> req, reply |-> reply,
   cond |-> cond,
   status |-> out.status, error |-> out.error, entry |-> out.entry,
   list |-> out.list, text |-> out.text, flag |-> out.flag,
   reads |-> out.reads, writes |-> out.writes, calls |-> out.calls]

\* a request is served: the table changes and the answer is recorded
Serve(op, caller, id, req, reply, cond, out) ==
  /\ now < StartMinute + MaxTime
  /\ entries' = out.rows
  /\ last' = Answer(op, caller, id, req, reply, cond, out)
  /\ now' = now + 1

\* a request that no open page made
Respond(op, caller, id, req, reply, cond, out) ==
  /\ Serve(op, caller, id, req, reply, cond, out)
  /\ UNCHANGED client

Init ==
  /\ entries = {}
  /\ nextId = 1
  /\ now = StartMinute
  /\ inflight = {}
  /\ last = NoRequest
  /\ client = NoClient

List(caller, category, archivedParam, needsReviewParam, dbOk) ==
  /\ Respond("list", caller, 0,
             [category |-> category, archived |-> archivedParam,
              needs_review |-> needsReviewParam],
             <<>>, Conditions(TRUE, dbOk, TRUE),
             ListEntries(entries, caller, category, archivedParam,
                         needsReviewParam, dbOk))
  /\ UNCHANGED <<nextId, inflight>>

Create(caller, jsonOk, body, dbOk) ==
  /\ nextId <= MaxEntries
  /\ Respond("create", caller, 0, body, <<>>, Conditions(jsonOk, dbOk, TRUE),
             CreateEntry(entries, caller, jsonOk, body, nextId, now, dbOk))
  /\ nextId' = IF entries' # entries THEN nextId + 1 ELSE nextId
  /\ UNCHANGED inflight

Get(caller, id, dbOk) ==
  /\ Respond("get", caller, id, EmptyObj, <<>>, Conditions(TRUE, dbOk, TRUE),
             GetEntry(entries, caller, id, dbOk))
  /\ UNCHANGED <<nextId, inflight>>

Patch(caller, id, jsonOk, body, dbOk) ==
  /\ Respond("patch", caller, id, body, <<>>, Conditions(jsonOk, dbOk, TRUE),
             PatchEntry(entries, caller, id, jsonOk, body, now, dbOk))
  /\ UNCHANGED <<nextId, inflight>>

Delete(caller, id, dbOk) ==
  /\ Respond("delete", caller, id, EmptyObj, <<>>, Conditions(TRUE, dbOk, TRUE),
             DeleteEntry(entries, caller, id, dbOk))
  /\ UNCHANGED <<nextId, inflight>>

Capture(caller, jsonOk, text, callOk, reply, dbOk, readOk) ==
  /\ nextId <= MaxEntries
  /\ Respond("capture", caller, 0, [text |-> text], reply,
             Merge(Conditions(jsonOk, dbOk, callOk), [readOk |-> readOk]),
             CaptureEntry(entries, caller, jsonOk, text, callOk, reply, nextId,
                          now, dbOk, readOk))
  /\ nextId' = IF entries' # entries THEN nextId + 1 ELSE nextId
  /\ UNCHANGED inflight

(***************************************************************************)
(* Inputs of the CRUD specification.                                       *)
(***************************************************************************)
PersonData == [name |-> "Ann", context |-> "met at work", lastContact |-> "2025-01-05"]
ProjectData == [goal |-> "ship", status |-> "active", nextAction |-> "plan"]
IdeaData == [insight |-> "an app", category |-> "business", date |-> "2025-01-05"]
IdeaDataNoted == [insight |-> "an app", category |-> "business", date |-> "2025-01-05",
                  notes |-> "old", saved |-> "true"]
TaskData == [task |-> "call", deadline |-> "none", priority |-> "low"]
TaskDataFull == [task |-> "call", deadline |-> "none", priority |-> "low",
                 status |-> "pending", location |-> "12 Main St", notes |-> "old"]

\* a payload of each category's shape
ShapedPayloads ==
  {<<"people", PersonData>>, <<"projects", ProjectData>>, <<"ideas", IdeaData>>,
   <<"tasks", TaskData>>}

CreateBodies ==
  {[category |-> p[1], data |-> p[2]] : p \in ShapedPayloads}
  \cup {[category |-> "tasks", data |-> TaskData, confidence |-> 30],
        [category |-> "ideas", data |-> IdeaData, confidence |-> 100,
         needs_review |-> "true", archived |-> "true", user_id |-> "u2"],
        [category |-> "notes", data |-> IdeaData],
        [category |-> "ideas"]}

PatchBodies ==
  {EmptyObj,
   [data |-> TaskDataFull],
   [category |-> "ideas", needs_review |-> "false"],
   [needs_review |-> "true"],
   [archived |-> "true"],
   [archived |-> "null"],
   [linked_entries |-> {1}],
   [data |-> IdeaData, confidence |-> 5, user_id |-> "u1", id |-> 2,
    created_at |-> 0]}

Classified(category, confidence, data, mentioned) ==
  [category |-> category, confidence |-> confidence, data |-> data,
   mentionedPeople |-> mentioned]

ClassifierReplies ==
  {<<Doc(Classified("tasks", 59, TaskData, {}))>>,
   <<Doc(Classified("tasks", 60, TaskData, {"ann"}))>>,
   <<FENCE, JSONW, NL, Doc(Classified("ideas", 95, IdeaData, {})), NL, FENCE>>,
   <<Doc(Classified("notes", 30, IdeaData, {}))>>,
   <<Txt("Sure"), SP, Doc(Classified("ideas", 95, IdeaData, {}))>>}

CaptureTexts == {"", "call Ann"}

ListQueries ==
  {[category |-> "", archived |-> "", needs_review |-> ""],
   [category |-> "", archived |-> "only", needs_review |-> ""],
   [category |-> "", archived |-> "true", needs_review |-> ""],
   [category |-> "tasks", archived |-> "", needs_review |-> ""],
   [category |-> "", archived |-> "", needs_review |-> "true"]}

\* who sends a request, and whether its body parses and the store answers
Clients ==
  {[caller |-> "u1", jsonOk |-> TRUE, dbOk |-> TRUE],
   [caller |-> "u2", jsonOk |-> TRUE, dbOk |-> TRUE],
   [caller |-> Anon, jsonOk |-> TRUE, dbOk |-> TRUE],
   [caller |-> "u1", jsonOk |-> FALSE, dbOk |-> TRUE],
   [caller |-> "u1", jsonOk |-> TRUE, dbOk |-> FALSE]}

BodilessClients == {c \in Clients : c.jsonOk}

\* whether the outbound call of a request succeeds
CaptureClients ==
  {[caller |-> c.caller, jsonOk |-> c.jsonOk, dbOk |-> c.dbOk, callOk |-> TRUE,
    readOk |-> c.dbOk] : c \in Clients}
  \cup {[caller |-> "u1", jsonOk |-> TRUE, dbOk |-> TRUE, callOk |-> FALSE,
         readOk |-> TRUE],
        [caller |-> "u1", jsonOk |-> TRUE, dbOk |-> TRUE, callOk |-> TRUE,
         readOk |-> FALSE]}

Next ==
  \/ \E c \in BodilessClients, q \in ListQueries :
       List(c.caller, q.category, q.archived, q.needs_review, c.dbOk)
  \/ \E c \in Clients, body \in CreateBodies :
       Create(c.caller, c.jsonOk, body, c.dbOk)
  \/ \E c \in CaptureClients, text \in CaptureTexts, reply \in ClassifierReplies :
       Capture(c.caller, c.jsonOk, text, c.callOk, reply, c.dbOk, c.readOk)
  \/ \E c \in BodilessClients, id \in Ids :
       Get(c.caller, id, c.dbOk)
  \/ \E c \in Clients, id \in Ids, body \in PatchBodies :
       Patch(c.caller, id, c.jsonOk, body, c.dbOk)
  \/ \E c \in BodilessClients, id \in Ids :
       Delete(c.caller, id, c.dbOk)

Spec == Init /\ [][Next]_vars

(***************************************************************************)
(* The chat routes.  A chat request reads its entry, awaits the model, and *)
(* then writes: the two halves are two steps, and the request is in        *)
(* inflight between them with the data it read.                            *)
(***************************************************************************)
ChatRequest(kind, caller, id, data, message, coords) ==
  [kind |-> kind, caller |-> caller, id |-> id, data |-> data,
   message |-> message, coords |-> coords]

ChatBegin(kind, caller, id, jsonOk, message, coords, dbOk) ==
  LET out == ChatFetch(entries, kind, caller, id, jsonOk, dbOk)
  IN IF out.status = 0
     THEN /\ Cardinality(inflight) < MaxInflight
          /\ inflight' = inflight \cup
               {ChatRequest(kind, caller, id, out.entry.data, message, coords)}
          /\ UNCHANGED <<entries, nextId, now, last, client>>
     ELSE /\ Respond("chat", caller, id,
                     ChatRequest(kind, caller, id, EmptyObj, message, coords),
                     <<>>, Conditions(jsonOk, dbOk, TRUE), out)
          /\ UNCHANGED <<nextId, inflight>>

ChatFinish(req, callOk, reply, dbOk) ==
  /\ req \in inflight
  /\ Respond("chat", req.caller, req.id, req, reply,
             Conditions(TRUE, dbOk, callOk),
             ChatReply(entries, req, callOk, reply, now, dbOk))
  /\ inflight' = inflight \ {req}
  /\ UNCHANGED nextId

(***************************************************************************)
(* Inputs of the chat specification.                                       *)
(***************************************************************************)
\* a row as create-one stores it
Seed(id, user, category, data) ==
  InsertRow(CreateValues([category |-> category, data |-> data], user), id,
            StartMinute)

SeedStores ==
  {{Seed(1, "u1", "projects", ProjectData), Seed(2, "u1", "ideas", IdeaDataNoted)},
   {Seed(1, "u1", "ideas", IdeaDataNoted), Seed(2, "u2", "tasks", TaskData)},
   {Seed(1, "u1", "tasks", TaskDataFull), Seed(2, "u2", "tasks", TaskData)},
   {Seed(1, "u1", "tasks", TaskData)}}

InitChat ==
  /\ entries \in SeedStores
  /\ nextId = 3
  /\ now = StartMinute + 1
  /\ inflight = {}
  /\ last = NoRequest
  /\ client = NoClient

\* {"action":"<name>","updates":{<members>}}
Block(name, members) ==
  <<LB, Key("action"), Str(name), COMMA, Key("updates"), LB>> \o members \o <<RB, RB>>

Member(k, v) == <<Key(k), Str(v)>>

ChatReplies ==
  {<<Txt("Sure")>>,
   <<Txt("Done"), SP>> \o Block("update", Member("priority", "high")),
   <<Txt("Done"), NL>> \o Block("update", Member("priority", "high"))
     \o <<NL, Txt("or"), SP>> \o Block("update", Member("priority", "low")),
   <<Txt("Noted"), SP>> \o Block("update", Member("notes", "use {x}")),
   <<Txt("Hm"), SP>> \o Block("update", <<Txt("priority")>>),
   <<Txt("Hm"), NL, FENCE, JSONW, NL, LB, Txt("oops"), RB, NL, FENCE>>,
   <<Txt("Moved"), SP>>
     \o Block("update", Member("status", "archived") \o <<COMMA>>
                        \o Member("nextAction", "wrap up")),
   <<Txt("Cleared"), SP>>
     \o Block("update", Member("status", "") \o <<COMMA>>
                        \o Member("nextAction", "wrap up")),
   <<Txt("Closed"), SP>> \o Block("update", Member("status", "completed")),
   <<Txt("Set"), SP>> \o Block("update", Member("deadline", "tomorrow")),
   <<Txt("Added"), SP>> \o Block("update", Member("notes", "buy milk")),
   <<Txt("See"), SP>> \o Block("open_link", <<>>)}

\* the model's reply to a turn, or its failure, and whether the store answers
ChatTurns ==
  {[reply |-> r, callOk |-> TRUE, dbOk |-> TRUE] : r \in ChatReplies}
  \cup {[reply |-> <<Txt("Done"), SP>> \o Block("update", Member("priority", "high")),
         callOk |-> TRUE, dbOk |-> FALSE],
        [reply |-> <<>>, callOk |-> FALSE, dbOk |-> TRUE]}

\* the body of a chat request: the message, and whether it carries coordinates
ChatBodies ==
  {[message |-> "set priority", coords |-> FALSE],
   [message |-> "Add to notes", coords |-> TRUE]}

NextChat ==
  \/ \E kind \in ChatKinds, c \in Clients, id \in Ids, body \in ChatBodies :
       ChatBegin(kind, c.caller, id, c.jsonOk, body.message, body.coords, c.dbOk)
  \/ \E req \in inflight, turn \in ChatTurns :
       ChatFinish(req, turn.callOk, turn.reply, turn.dbOk)

SpecChat == InitChat /\ [][NextChat]_vars


(***************************************************************************)
(* The other routes, and the specification of all the endpoints.           *)
(***************************************************************************)
SaveToggle(caller, id, dbOk, writeOk) ==
  /\ Respond("save", caller, id, EmptyObj, <<>>, Conditions(TRUE, dbOk /\ writeOk, TRUE),
             ToggleSaved(entries, caller, id, now, dbOk, writeOk))
  /\ UNCHANGED <<nextId, inflight>>

SuggestIdea(caller, id, callOk, reply, dbOk) ==
  /\ Respond("idea_suggestions", caller, id, EmptyObj, reply,
             Conditions(TRUE, dbOk, callOk),
             IdeaSuggestions(entries, caller, id, callOk, reply, dbOk))
  /\ UNCHANGED <<nextId, inflight>>

SuggestProject(caller, id, regenerate, callOk, reply, dbOk) ==
  /\ Respond("project_suggestions", caller, id, [regenerate |-> regenerate], reply,
             Conditions(TRUE, dbOk, callOk),
             ProjectSuggestions(entries, caller, id, regenerate, callOk, reply,
                                now, dbOk, dbOk))
  /\ UNCHANGED <<nextId, inflight>>

ExportPdfPost(caller, id, formOk, form, dbOk) ==
  /\ Respond("pdf_post", caller, id, [suggestions |-> form], <<>>,
             Conditions(formOk, dbOk, TRUE),
             PdfFromPlan(entries, caller, id, formOk, form, dbOk))
  /\ UNCHANGED <<nextId, inflight>>

ExportPdfGet(caller, id, callOk, reply, dbOk) ==
  /\ Respond("pdf_get", caller, id, EmptyObj, reply, Conditions(TRUE, dbOk, callOk),
             ExportFresh(entries, caller, id, callOk, reply, dbOk))
  /\ UNCHANGED <<nextId, inflight>>

ExportHtml(caller, id, callOk, reply, dbOk) ==
  /\ Respond("html", caller, id, EmptyObj, reply, Conditions(TRUE, dbOk, callOk),
             ExportFresh(entries, caller, id, callOk, reply, dbOk))
  /\ UNCHANGED <<nextId, inflight>>

GetDigest(caller, callOk, reply, dbOk) ==
  /\ Respond("digest", caller, 0, EmptyObj, reply, Conditions(TRUE, dbOk, callOk),
             Digest(entries, caller, callOk, reply, dbOk))
  /\ UNCHANGED <<nextId, inflight>>

GetDigestEarlier(caller, callOk, reply, dbOk) ==
  /\ Respond("digest_earlier", caller, 0, EmptyObj, reply,
             Conditions(TRUE, dbOk, callOk),
             DigestEarlier(entries, caller, callOk, reply, dbOk))
  /\ UNCHANGED <<nextId, inflight>>

GetDistance(caller, origin, destination, keyOk, callOk, status, element) ==
  /\ Respond("distance", caller, 0, [origin |-> origin, destination |-> destination],
             <<Matrix(status, element)>>, Conditions(TRUE, keyOk, callOk),
             Distance(entries, caller, origin, destination, keyOk, callOk, status,
                      element))
  /\ UNCHANGED <<nextId, inflight>>

\* no entry yet, or one entry of a user
SmallStores ==
  {{},
   {Seed(1, "u1", "ideas", IdeaData)},
   {Seed(1, "u1", "projects", ProjectData)},
   {Seed(1, "u1", "tasks", TaskDataFull)}}

InitAll ==
  /\ entries \in SmallStores
  /\ nextId = Cardinality(entries) + 1
  /\ now = StartMinute + 1
  /\ inflight = {}
  /\ last = NoRequest
  /\ client = NoClient

\* a user whose requests succeed, and a caller without a session
Visitors == {"u1", Anon}

PlanReplies ==
  {<<Plan("plan A")>>,
   <<FENCE, JSONW, NL, Plan("plan B"), NL, FENCE>>,
   <<Txt("Sorry")>>}

DigestReplies ==
  {<<Bullets(<<"call", "ship", "rest">>)>>,
   <<FENCE, NL, Bullets(<<"call", "ship", "rest">>), NL, FENCE>>,
   <<Txt("Sorry")>>}

DistanceAnswers ==
  {[keyOk |-> TRUE, callOk |-> TRUE, status |-> "OK", element |-> "OK"],
   [keyOk |-> FALSE, callOk |-> TRUE, status |-> "OK", element |-> "OK"],
   [keyOk |-> TRUE, callOk |-> FALSE, status |-> "OK", element |-> "OK"],
   [keyOk |-> TRUE, callOk |-> TRUE, status |-> "REQUEST_DENIED", element |-> "OK"],
   [keyOk |-> TRUE, callOk |-> TRUE, status |-> "OK", element |-> "NOT_FOUND"]}

Places == {"", "12 Main St"}

NextAll ==
  \/ \E caller \in Visitors, q \in ListQueries :
       List(caller, q.category, q.archived, q.needs_review, TRUE)
  \/ \E caller \in Visitors, body \in {b \in CreateBodies : DOMAIN b = {"category", "data"}} :
       Create(caller, TRUE, body, TRUE)
  \/ \E caller \in Visitors, reply \in ClassifierReplies :
       Capture(caller, TRUE, "call Ann", TRUE, reply, TRUE, TRUE)
  \/ \E caller \in Visitors, id \in Ids : Get(caller, id, TRUE)
  \/ \E caller \in Visitors, id \in Ids, body \in {EmptyObj, [archived |-> "true"]} :
       Patch(caller, id, TRUE, body, TRUE)
  \/ \E caller \in Visitors, id \in Ids : Delete(caller, id, TRUE)
  \/ \E kind \in ChatKinds, caller \in Visitors, id \in Ids :
       ChatBegin(kind, caller, id, TRUE, "set priority", TRUE, TRUE)
  \/ \E req \in inflight, turn \in {t \in ChatTurns : t.dbOk} :
       ChatFinish(req, turn.callOk, turn.reply, turn.dbOk)
  \/ \E caller \in Visitors, id \in Ids, writeOk \in BOOLEAN :
       SaveToggle(caller, id, TRUE, writeOk)
  \/ \E caller \in Visitors, id \in Ids, callOk \in BOOLEAN, reply \in PlanReplies :
       SuggestIdea(caller, id, callOk, reply, TRUE)
  \/ \E caller \in Visitors, id \in Ids, regenerate \in BOOLEAN, reply \in PlanReplies :
       SuggestProject(caller, id, regenerate, TRUE, reply, TRUE)
  \/ \E caller \in Visitors, id \in Ids, form \in PlanReplies :
       ExportPdfPost(caller, id, TRUE, form, TRUE)
  \/ \E caller \in Visitors, id \in Ids, reply \in PlanReplies :
       ExportPdfGet(caller, id, TRUE, reply, TRUE)
  \/ \E caller \in Visitors, id \in Ids, reply \in PlanReplies :
       ExportHtml(caller, id, TRUE, reply, TRUE)
  \/ \E caller \in Visitors, callOk \in BOOLEAN, reply \in DigestReplies :
       GetDigest(caller, callOk, reply, TRUE)
  \/ \E caller \in Visitors, callOk \in BOOLEAN, reply \in DigestReplies :
       GetDigestEarlier(caller, callOk, reply, TRUE)
  \/ \E caller \in Visitors, origin \in Places, a \in DistanceAnswers :
       GetDistance(caller, origin, "12 Main St", a.keyOk, a.callOk, a.status, a.element)

SpecAll == InitAll /\ [][NextAll]_vars

(***************************************************************************)
(* Classify-and-create on a table that already holds people.  The rows     *)
(* that exist beforehand have ids outside the ones the requests create.    *)
(***************************************************************************)
Archived(row) == UpdateRow(row, [archived |-> "true"])

PeopleStores ==
  {{Seed(11, "u1", "people", PersonData),
    Seed(12, "u1", "people", [name |-> "Annabel", context |-> "gym",
                              lastContact |-> "2025-01-05"]),
    Seed(13, "u1", "people", [name |-> "Bob", context |-> "gym",
                              lastContact |-> "2025-01-05"]),
    Seed(14, "u2", "people", PersonData),
    Archived(Seed(15, "u1", "people", PersonData)),
    Seed(16, "u1", "projects", [name |-> "Ann", goal |-> "ship", status |-> "active",
                                nextAction |-> "plan"])},
   {Seed(11, "u1", "people", [context |-> "gym", lastContact |-> "2025-01-05"]),
    Seed(12, "u2", "people", PersonData),
    Archived(Seed(13, "u2", "people", PersonData))}}

InitLink ==
  /\ entries \in PeopleStores
  /\ nextId = 1
  /\ now = StartMinute
  /\ inflight = {}
  /\ last = NoRequest
  /\ client = NoClient

\* replies of the classifier that differ in the people they mention
MentioningReplies ==
  {<<Doc(Classified("tasks", 90, TaskData, m))>> :
     m \in {{}, {"Ann"}, {"an"}, {"Bob", "Annabel"}, {"someday"}}}
  \cup {<<Txt("Sorry")>>}

NextLink ==
  \/ \E c \in CaptureClients, reply \in MentioningReplies :
       Capture(c.caller, c.jsonOk, "call Ann", c.callOk, reply, c.dbOk, c.readOk)
  \/ \E c \in BodilessClients, q \in ListQueries :
       List(c.caller, q.category, q.archived, q.needs_review, c.dbOk)
  \/ \E c \in BodilessClients, id \in Ids :
       Get(c.caller, id, c.dbOk)

SpecLink == InitLink /\ [][NextLink]_vars

(***************************************************************************)
(* The digest on tables with and without open tasks and projects.          *)
(***************************************************************************)
DigestStores ==
  {{},
   {Seed(1, "u1", "tasks", TaskData)},
   {Seed(1, "u1", "projects", ProjectData), Seed(2, "u1", "ideas", IdeaData)},
   {Archived(Seed(1, "u1", "tasks", TaskData)), Seed(2, "u1", "people", PersonData)},
   {Seed(1, "u2", "tasks", TaskData), Seed(2, "u2", "projects", ProjectData)}}

InitDigest ==
  /\ entries \in DigestStores
  /\ nextId = 3
  /\ now = StartMinute
  /\ inflight = {}
  /\ last = NoRequest
  /\ client = NoClient

NextDigest ==
  \/ \E c \in BodilessClients, callOk \in BOOLEAN, reply \in DigestReplies :
       GetDigest(c.caller, callOk, reply, c.dbOk)
  \/ \E c \in BodilessClients, callOk \in BOOLEAN, reply \in DigestReplies :
       GetDigestEarlier(c.caller, callOk, reply, c.dbOk)
  \/ \E c \in BodilessClients, id \in Ids,
        body \in {[archived |-> "true"], [archived |-> "false"]} :
       Patch(c.caller, id, c.jsonOk, body, c.dbOk)

SpecDigest == InitDigest /\ [][NextDigest]_vars

(***************************************************************************)
(* The suggestions routes, asked more than once for the same entry.        *)
(***************************************************************************)
PlanStores ==
  {{Seed(1, "u1", "ideas", IdeaData)},
   {Seed(1, "u1", "projects", ProjectData)},
   {Seed(1, "u1", "projects", Merge(ProjectData, [suggestions |-> "plan A"]))}}

InitPlan ==
  /\ entries \in PlanStores
  /\ nextId = 2
  /\ now = StartMinute
  /\ inflight = {}
  /\ last = NoRequest
  /\ client = NoClient

NextPlan ==
  \/ \E c \in BodilessClients, id \in Ids, callOk \in BOOLEAN, reply \in PlanReplies :
       SuggestIdea(c.caller, id, callOk, reply, c.dbOk)
  \/ \E c \in BodilessClients, id \in Ids, regenerate \in BOOLEAN,
        callOk \in BOOLEAN, reply \in PlanReplies :
       SuggestProject(c.caller, id, regenerate, callOk, reply, c.dbOk)

SpecPlan == InitPlan /\ [][NextPlan]_vars

(***************************************************************************)
(* The distance route under every answer of the provider.                  *)
(***************************************************************************)
\* top-level statuses of the Distance Matrix API
TopStatuses == {"OK", "INVALID_REQUEST", "REQUEST_DENIED"}
\* statuses of an element, and the element that is not in the answer
ElementStatuses == {"OK", "NOT_FOUND", "ZERO_RESULTS", "missing"}

InitDistance ==
  /\ entries = {}
  /\ nextId = 1
  /\ now = StartMinute
  /\ inflight = {}
  /\ last = NoRequest
  /\ client = NoClient

NextDistance ==
  \E caller \in Callers, origin \in Places, destination \in Places,
     keyOk \in BOOLEAN, callOk \in BOOLEAN,
     status \in TopStatuses, element \in ElementStatuses :
    GetDistance(caller, origin, destination, keyOk, callOk, status, element)

SpecDistance == InitDistance /\ [][NextDistance]_vars

(***************************************************************************)
(* Task chat turns that set a deadline.  Minute 0 is 2025-01-01T00:00, so  *)
(* the clock starts on that day at 10:00.                                  *)
(***************************************************************************)
DeadlineInputs ==
  {"today", "tomorrow", "Tomorrow", "next week", "tomorrow 3pm", "5:30 pm",
   "12am", "2025-03-01", "someday"}

DeadlineTurns ==
  {[reply |-> <<Txt("Set"), SP>> \o Block("update", Member("deadline", d)),
    callOk |-> TRUE, dbOk |-> TRUE] : d \in DeadlineInputs}
  \cup {[reply |-> <<Txt("Set"), SP>>
                      \o Block("update", Member("deadline", "whenever") \o <<COMMA>>
                                         \o Member("priority", "high")),
         callOk |-> TRUE, dbOk |-> TRUE],
        [reply |-> <<>>, callOk |-> FALSE, dbOk |-> TRUE]}

InitDate ==
  /\ entries = {Seed(1, "u1", "tasks", TaskData)}
  /\ nextId = 2
  /\ now = StartMinute
  /\ inflight = {}
  /\ last = NoRequest
  /\ client = NoClient

NextDate ==
  \/ \E c \in Clients, id \in Ids, body \in ChatBodies :
       ChatBegin("tasks", c.caller, id, c.jsonOk, body.message, body.coords, c.dbOk)
  \/ \E req \in inflight, turn \in DeadlineTurns :
       ChatFinish(req, turn.callOk, turn.reply, turn.dbOk)

SpecDate == InitDate /\ [][NextDate]_vars

(***************************************************************************)
(* generatePDFResponse of /api/ideas/[id]/pdf.  A text is the sequence of  *)
(* the words text.split(' ') gives, each word being its width in points at *)
(* the size it is drawn in; 0 is the empty word.  The document is the      *)
(* sequence of the elements drawn, each with its page and its y.           *)
(***************************************************************************)
pageWidth == 595
pageHeight == 842
margin == 50
contentWidth == pageWidth - margin * 2

\* the width of a blank of the font at a size
SpaceWidth(size) == size \div 4

RECURSIVE SumWidths(_)
SumWidths(line) ==
  IF line = <<>> THEN 0 ELSE Head(line) + SumWidths(Tail(line))

\* font.widthOfTextAtSize of words joined by blanks
WidthOfText(line, size) == SumWidths(line) + SpaceWidth(size) * (Len(line) - 1)

\* one turn of the loop of wrapText: the word joins the current line, or
\* the current line is pushed and the word starts the next one
WrapWord(w, word, maxWidth, size) ==
  LET currentLine == w.currentLine
      testLine == IF currentLine # <<>> THEN Append(currentLine, word)
                  ELSE IF word = 0 THEN <<>> ELSE <<word>>
  IN IF WidthOfText(testLine, size) > maxWidth /\ currentLine # <<>>
     THEN [lines |-> Append(w.lines, currentLine),
           currentLine |-> IF word = 0 THEN <<>> ELSE <<word>>]
     ELSE [lines |-> w.lines, currentLine |-> testLine]

\* for (const word of words): the turns for the words lo..hi, in order.  The
\* test on the first half has it evaluated before the second half is begun.
RECURSIVE WrapWords(_, _, _, _, _, _)
WrapWords(w, words, lo, hi, maxWidth, size) ==
  IF lo > hi THEN w
  ELSE IF lo = hi THEN WrapWord(w, words[lo], maxWidth, size)
  ELSE LET mid == (lo + hi) \div 2
           first == WrapWords(w, words, lo, mid, maxWidth, size)
       IN IF Len(first.lines) >= 0 /\ Len(first.currentLine) >= 0
          THEN WrapWords(first, words, mid + 1, hi, maxWidth, size)
          ELSE first

\* the lines of a text, each a sequence of words
wrapText(text, maxWidth, size) ==
  LET w == WrapWords([lines |-> <<>>, currentLine |-> <<>>], text, 1, Len(text),
                     maxWidth, size)
  IN IF w.currentLine # <<>> THEN Append(w.lines, w.currentLine) ELSE w.lines

\* the cursor of the drawing: the current page, y, and what was drawn so far
StartOfDocument == [page |-> 1, y |-> pageHeight - margin, out |-> <<>>]

\* a helper that never starts a page
checkPageBreakNever(c, neededSpace) == c

\* if (y - neededSpace < margin) { page = pdfDoc.addPage(...); y = pageHeight - margin }
checkPageBreak(c, neededSpace) ==
  IF c.y - neededSpace < margin
  THEN [c EXCEPT !.page = @ + 1, !.y = pageHeight - margin]
  ELSE c

\* The statements of generatePDFResponse, in the order it executes them:
\* Check(n) is checkPageBreak(n), Down(d) is y -= d, and Draw(kind, dy, n,
\* what) is a page.drawText, drawLine, drawRectangle or drawCircle at y - dy
\* of the words what, for the step or list item number n.
Check(neededSpace) ==
  [op |-> "check", arg |-> neededSpace, kind |-> "", n |-> 0, what |-> <<>>]
Down(d) == [op |-> "down", arg |-> d, kind |-> "", n |-> 0, what |-> <<>>]
Draw(kind, dy, n, what) ==
  [op |-> "draw", arg |-> dy, kind |-> kind, n |-> n, what |-> what]

\* for (const line of lines) { checkPageBreak(needed); drawText(line); y -= step }
LineLoop(lines, neededSpace, step, kind, n) ==
  [k \in 1..(3 * Len(lines)) |->
     CASE k % 3 = 1 -> Check(neededSpace)
       [] k % 3 = 2 -> Draw(kind, 0, n, lines[(k + 1) \div 3])
       [] k % 3 = 0 -> Down(step)]

\* category and date, title, summary, divider, time panel
HeadBlock(ideaData, suggestions) ==
  <<Draw("category", 0, 0, <<>>), Draw("date", 0, 0, <<>>), Down(30)>>
    \o LineLoop(wrapText(ideaData.insight, contentWidth, 22), 30, 28, "title", 0)
    \o <<Down(10)>>
    \o LineLoop(wrapText(suggestions.summary, contentWidth, 12), 18, 18, "summary", 0)
    \o <<Down(15), Draw("divider", 0, 0, <<>>), Down(30),
         Check(40), Draw("panel", 25, 0, <<>>), Draw("time_label", 15, 0, <<>>),
         Draw("time", 15, 0, <<>>), Down(55)>>

\* one step: circle, number, title, the lines of the description
StepBlock(step, i) ==
  <<Check(60), Draw("step_circle", 2, i, <<>>), Draw("step_number", 6, i, <<i>>),
    Draw("step_title", 0, i, step.title), Down(18)>>
    \o LineLoop(wrapText(step.description, contentWidth - 40, 11), 16, 16,
                "step_line", i)
    \o <<Down(15)>>

RECURSIVE StepLoop(_, _)
StepLoop(steps, i) ==
  IF i > Len(steps) THEN <<>>
  ELSE StepBlock(steps[i], i) \o StepLoop(steps, i + 1)

\* the heading of the steps and the steps
StepsSection(steps) ==
  <<Check(50), Draw("heading", 0, 0, <<>>), Down(10), Draw("rule", 0, 0, <<>>),
    Down(25)>> \o StepLoop(steps, 1)

\* the lines of a list item: a check before every line but the first, and
\* y moves down between the lines only
ItemLineLoop(lines, n) ==
  [k \in 1..(3 * Len(lines)) |->
     CASE k % 3 = 1 -> IF k > 1 THEN Check(16) ELSE Down(0)
       [] k % 3 = 2 -> Draw("item_line", 0, n, lines[(k + 1) \div 3])
       [] k % 3 = 0 -> IF k < 3 * Len(lines) THEN Down(16) ELSE Down(0)]

RECURSIVE ItemLoop(_, _)
ItemLoop(items, i) ==
  IF i > Len(items) THEN <<>>
  ELSE <<Check(20), Draw("glyph", 0, i, <<>>)>>
         \o ItemLineLoop(wrapText(items[i], contentWidth - 25, 11), i)
         \o <<Down(18)>> \o ItemLoop(items, i + 1)

\* the resources and the considerations: a heading, a rule and the items
ListSection(items) ==
  IF Len(items) > 0
  THEN <<Down(10), Check(50), Draw("heading", 0, 0, <<>>), Down(10),
         Draw("rule", 0, 0, <<>>), Down(20)>> \o ItemLoop(items, 1)
  ELSE <<>>

Footer == <<Down(20), Check(30), Draw("rule", 0, 0, <<>>), Down(15),
            Draw("footer", 0, 0, <<>>)>>

\* the effect of one statement on the cursor
Execute(c, s) ==
  CASE s.op = "check" -> checkPageBreak(c, s.arg)
    [] s.op = "down" -> [c EXCEPT !.y = @ - s.arg]
    [] s.op = "draw" ->
         [c EXCEPT !.out = Append(@, [page |-> c.page, y |-> c.y - s.arg,
                                      kind |-> s.kind, n |-> s.n, what |-> s.what])]

\* the statements lo..hi, in order; the test on the first half has it
\* evaluated before the second half is begun
RECURSIVE Run(_, _, _, _)
Run(c, statements, lo, hi) ==
  IF lo > hi THEN c
  ELSE IF lo = hi THEN Execute(c, statements[lo])
  ELSE LET mid == (lo + hi) \div 2
           first == Run(c, statements, lo, mid)
       IN IF first.page >= c.page
          THEN Run(first, statements, mid + 1, hi)
          ELSE first

\* the statements of the whole function
Statements(ideaData, suggestions) ==
  HeadBlock(ideaData, suggestions)
    \o StepsSection(suggestions.steps)
    \o ListSection(suggestions.resources)
    \o ListSection(suggestions.considerations)
    \o Footer

\* the document: its elements in the order they are drawn, and its pages
generatePDFResponse(ideaData, suggestions) ==
  LET statements == Statements(ideaData, suggestions)
      c == Run(StartOfDocument, statements, 1, Len(statements))
  IN [elements |-> c.out, pages |-> c.page]

(***************************************************************************)
(* Ideas and plans that are rendered.                                      *)
(***************************************************************************)
\* number of steps of a plan
MaxSteps == 2

\* a text of n words of about the width w
Text(n, w) == [i \in 1..n |-> w + (i % 3)]

\* the empty string: split gives one empty word
NoText == <<0>>

\* titles of one, two and twenty-five lines
Insights == {Text(1, 250), Text(4, 120), Text(25, 250)}

\* summaries: none, a line and a half, thirty-seven and thirty-eight lines
Summaries == {NoText, Text(5, 150), Text(37, 300), Text(38, 300)}

\* a step of one line and a step whose description takes twenty lines, one
\* of them with two blanks in a row
StepsOfPlan ==
  {[title |-> Text(2, 60), description |-> Text(3, 100)],
   [title |-> Text(3, 60), description |-> Text(20, 200) \o <<0>> \o Text(20, 200)]}

StepLists == UNION {[1..n -> StepsOfPlan] : n \in 0..MaxSteps}

ItemLists == {<<>>, <<Text(2, 100), Text(9, 200)>>}

PlansRendered ==
  {[summary |-> s, steps |-> st, resources |-> r, considerations |-> k]
     : s \in Summaries, st \in StepLists, r \in ItemLists, k \in ItemLists}

RenderPdf(insight, suggestions) ==
  /\ last = NoRequest
  /\ last' = [op |-> "pdf_render", insight |-> insight, plan |-> suggestions,
              doc |-> generatePDFResponse([insight |-> insight], suggestions)]
  /\ UNCHANGED <<entries, nextId, now, inflight, client>>

InitPdf ==
  /\ entries = {}
  /\ nextId = 1
  /\ now = StartMinute
  /\ inflight = {}
  /\ last = NoRequest
  /\ client = NoClient

NextPdf ==
  \E insight \in Insights, suggestions \in PlansRendered : RenderPdf(insight, suggestions)

SpecPdf == InitPdf /\ [][NextPdf]_vars

(***************************************************************************)
(* The dashboard, src/app/page.tsx.  Its state is the entries it has       *)
(* loaded; the review queue, the four cards and the saved ideas are views  *)
(* of them.  A handler awaits its request and then sets the state.         *)
(***************************************************************************)
Dashboard(user, loaded, loading) ==
  [page |-> "dashboard", user |-> user, entries |-> loaded, loading |-> loading]

\* const reviewEntries = entries.filter((e) => e.needs_review)
reviewEntries(loaded) ==
  LET Is(e) == e.needs_review = "true"
  IN SelectSeq(loaded, Is)

\* a card that lists the entries of its category whether or not in review
getEntriesByCategoryAny(loaded, category) ==
  LET Is(e) == e.category = category
  IN SelectSeq(loaded, Is)

\* entries.filter((e) => e.category === category && !e.needs_review)
getEntriesByCategory(loaded, category) ==
  LET Is(e) == e.category = category /\ e.needs_review # "true"
  IN SelectSeq(loaded, Is)

\* SavedIdeas: the ideas whose data.saved is true
savedIdeas(loaded) ==
  LET Is(e) == /\ e.category = "ideas"
               /\ "saved" \in DOMAIN e.data /\ e.data.saved = "true"
  IN SelectSeq(loaded, Is)

\* prev.map((e) => (e.id === id ? updated : e))
ReplaceLoaded(loaded, id, updated) ==
  [i \in DOMAIN loaded |-> IF loaded[i].id = id THEN updated ELSE loaded[i]]

\* prev.filter((e) => e.id !== id)
RemoveLoaded(loaded, id) ==
  LET Is(e) == e.id # id
  IN SelectSeq(loaded, Is)

\* fetchEntries: GET /api/entries, and the list is set when the answer is ok
fetchEntries(dbOk) ==
  LET out == ListEntries(entries, client.user, "", "", "", dbOk)
  IN /\ client.page = "dashboard"
     /\ Serve("list", client.user, 0,
              [category |-> "", archived |-> "", needs_review |-> ""], <<>>,
              Conditions(TRUE, dbOk, TRUE), out)
     /\ client' = [client EXCEPT !.entries = IF out.status = 200 THEN out.list ELSE @,
                                 !.loading = FALSE]
     /\ UNCHANGED <<nextId, inflight>>

\* handleAssignCategory, from an entry of the review queue
handleAssignCategory(entryId, category, dbOk) ==
  LET body == [category |-> category, needs_review |-> "false"]
      out == PatchEntry(entries, client.user, entryId, TRUE, body, now, dbOk)
  IN /\ client.page = "dashboard"
     /\ \E i \in DOMAIN reviewEntries(client.entries) :
          reviewEntries(client.entries)[i].id = entryId
     /\ Serve("assign", client.user, entryId, body, <<>>,
              Conditions(TRUE, dbOk, TRUE), out)
     /\ client' = [client EXCEPT !.entries = IF out.status = 200
                                             THEN ReplaceLoaded(@, entryId, out.entry)
                                             ELSE @]
     /\ UNCHANGED <<nextId, inflight>>

\* handleUpdate, from a card
handleUpdate(id, data, dbOk) ==
  LET body == [data |-> data]
      out == PatchEntry(entries, client.user, id, TRUE, body, now, dbOk)
  IN /\ client.page = "dashboard"
     /\ \E i \in DOMAIN client.entries : client.entries[i].id = id
     /\ Serve("update", client.user, id, body, <<>>, Conditions(TRUE, dbOk, TRUE), out)
     /\ client' = [client EXCEPT !.entries = IF out.status = 200
                                             THEN ReplaceLoaded(@, id, out.entry)
                                             ELSE @]
     /\ UNCHANGED <<nextId, inflight>>

\* handleDelete, from a card, and handleDismissReview, from the review queue
handleDelete(id, dbOk) ==
  LET out == DeleteEntry(entries, client.user, id, dbOk)
  IN /\ client.page = "dashboard"
     /\ \E i \in DOMAIN client.entries : client.entries[i].id = id
     /\ Serve("delete", client.user, id, EmptyObj, <<>>,
              Conditions(TRUE, dbOk, TRUE), out)
     /\ client' = [client EXCEPT !.entries = IF out.status = 200
                                             THEN RemoveLoaded(@, id) ELSE @]
     /\ UNCHANGED <<nextId, inflight>>

\* a row in review, as the capture route stores one
InReview(row) == [row EXCEPT !.needs_review = "true", !.confidence = 30]

DashStores ==
  {{InReview(Seed(1, "u1", "tasks", TaskData)), Seed(2, "u1", "ideas", IdeaDataNoted),
    Seed(3, "u2", "tasks", TaskData)},
   {InReview(Seed(1, "u1", "ideas", IdeaDataNoted)), Seed(2, "u1", "people", PersonData)},
   {Seed(1, "u1", "ideas", IdeaData), InReview(Seed(2, "u1", "projects", ProjectData))}}

DashIds == 1..3

InitDash ==
  /\ entries \in DashStores
  /\ nextId = 4
  /\ now = StartMinute
  /\ inflight = {}
  /\ last = NoRequest
  /\ client = Dashboard("u1", <<>>, TRUE)

NextDash ==
  \/ \E dbOk \in BOOLEAN : fetchEntries(dbOk)
  \/ \E id \in DashIds, category \in Categories, dbOk \in BOOLEAN :
       handleAssignCategory(id, category, dbOk)
  \/ \E id \in DashIds, dbOk \in BOOLEAN : handleUpdate(id, TaskDataFull, dbOk)
  \/ \E id \in DashIds, dbOk \in BOOLEAN : handleDelete(id, dbOk)
  \/ \E id \in DashIds, dbOk \in BOOLEAN : SaveToggle("u1", id, dbOk, TRUE)

SpecDash == InitDash /\ [][NextDash]_vars

(***************************************************************************)
(* Every route that writes to an entry that exists: the partial update,    *)
(* the three chat routes, the save toggle and the project suggestions.     *)
(***************************************************************************)
WriteStores ==
  {{Seed(1, "u1", "ideas", IdeaData)},
   {InReview(Seed(1, "u1", "ideas", IdeaDataNoted))},
   {Seed(1, "u1", "projects", ProjectData)},
   {InReview(Seed(1, "u1", "projects", ProjectData))},
   {Seed(1, "u1", "tasks", TaskDataFull)},
   {Seed(1, "u2", "ideas", IdeaData)}}

WriteEdits ==
  {[data |-> TaskData], [category |-> "people", needs_review |-> "false"],
   [archived |-> "true"], EmptyObj}

WriteTurns ==
  {[reply |-> <<Txt("Sure")>>, callOk |-> TRUE, dbOk |-> TRUE],
   [reply |-> <<Txt("Noted"), SP>> \o Block("update", Member("notes", "buy milk")),
    callOk |-> TRUE, dbOk |-> TRUE],
   [reply |-> <<Txt("Moved"), SP>> \o Block("update", Member("category", "people")),
    callOk |-> TRUE, dbOk |-> TRUE],
   [reply |-> <<Txt("Noted"), SP>> \o Block("update", Member("notes", "buy milk")),
    callOk |-> TRUE, dbOk |-> FALSE]}

InitWrites ==
  /\ entries \in WriteStores
  /\ nextId = 2
  /\ now = StartMinute
  /\ inflight = {}
  /\ last = NoRequest
  /\ client = NoClient

NextWrites ==
  \/ \E id \in Ids, body \in WriteEdits, dbOk \in BOOLEAN :
       Patch("u1", id, TRUE, body, dbOk)
  \/ \E kind \in ChatKinds, id \in Ids :
       ChatBegin(kind, "u1", id, TRUE, "Add to notes", FALSE, TRUE)
  \/ \E req \in inflight, turn \in WriteTurns :
       ChatFinish(req, turn.callOk, turn.reply, turn.dbOk)
  \/ \E id \in Ids, dbOk \in BOOLEAN, writeOk \in BOOLEAN :
       SaveToggle("u1", id, dbOk, writeOk)
  \/ \E id \in Ids, regenerate \in BOOLEAN, reply \in PlanReplies, dbOk \in BOOLEAN :
       SuggestProject("u1", id, regenerate, TRUE, reply, dbOk)

SpecWrites == InitWrites /\ [][NextWrites]_vars

(***************************************************************************)
(* Task chat turns that write notes, on tasks with and without notes.      *)
(***************************************************************************)
NotesStores ==
  {{Seed(1, "u1", "tasks", TaskDataFull)},
   {Seed(1, "u1", "tasks", TaskData)},
   {Seed(1, "u1", "tasks", Put(TaskData, "notes", ""))}}

NotesMessages ==
  {"Add to notes", "please ADD TO NOTES: milk", "add notes", "set priority"}

NotesTurns ==
  {[reply |-> <<Txt("Added"), SP>> \o Block("update", Member("notes", n)),
    callOk |-> TRUE, dbOk |-> TRUE] : n \in {"buy milk", ""}}
  \cup {[reply |-> <<Txt("Done"), SP>> \o Block("update", Member("priority", "high")),
         callOk |-> TRUE, dbOk |-> TRUE],
        [reply |-> <<>>, callOk |-> FALSE, dbOk |-> TRUE]}

InitNotes ==
  /\ entries \in NotesStores
  /\ nextId = 2
  /\ now = StartMinute
  /\ inflight = {}
  /\ last = NoRequest
  /\ client = NoClient

NextNotes ==
  \/ \E c \in Clients, id \in Ids, message \in NotesMessages :
       ChatBegin("tasks", c.caller, id, c.jsonOk, message, FALSE, c.dbOk)
  \/ \E req \in inflight, turn \in NotesTurns :
       ChatFinish(req, turn.callOk, turn.reply, turn.dbOk)

SpecNotes == InitNotes /\ [][NextNotes]_vars

(***************************************************************************)
(* Requests on one entry that overlap: several chat turns on a task, opened *)
(* from several tabs, and manual edits of the same task.                   *)
(***************************************************************************)
\* number of chat turns on the entry that may await the model at the same time
MaxTabs == 2

\* the first half of a chat request, from one of the tabs
TabBegin(kind, caller, id, jsonOk, message, coords, dbOk) ==
  LET out == ChatFetch(entries, kind, caller, id, jsonOk, dbOk)
  IN IF out.status = 0
     THEN /\ Cardinality(inflight) < MaxTabs
          /\ inflight' = inflight \cup
               {ChatRequest(kind, caller, id, out.entry.data, message, coords)}
          /\ UNCHANGED <<entries, nextId, now, last, client>>
     ELSE /\ Respond("chat", caller, id,
                     ChatRequest(kind, caller, id, EmptyObj, message, coords),
                     <<>>, Conditions(jsonOk, dbOk, TRUE), out)
          /\ UNCHANGED <<nextId, inflight>>

InitRace ==
  /\ entries = {Seed(1, "u1", "tasks", TaskData)}
  /\ nextId = 2
  /\ now = StartMinute
  /\ inflight = {}
  /\ last = NoRequest
  /\ client = NoClient

RaceTurns ==
  {[reply |-> <<Txt("Sure")>>, callOk |-> TRUE, dbOk |-> TRUE],
   [reply |-> <<Txt("Done"), SP>> \o Block("update", Member("priority", "high")),
    callOk |-> TRUE, dbOk |-> TRUE],
   [reply |-> <<Txt("Added"), SP>> \o Block("update", Member("notes", "buy milk")),
    callOk |-> TRUE, dbOk |-> TRUE],
   [reply |-> <<Txt("Added"), SP>> \o Block("update", Member("notes", "buy milk")),
    callOk |-> TRUE, dbOk |-> FALSE]}

RaceEdits == {[data |-> TaskDataFull], [archived |-> "true"]}

NextRace ==
  \/ \E c \in Clients, id \in Ids, body \in ChatBodies :
       TabBegin("tasks", c.caller, id, c.jsonOk, body.message, body.coords, c.dbOk)
  \/ \E req \in inflight, turn \in RaceTurns :
       ChatFinish(req, turn.callOk, turn.reply, turn.dbOk)
  \/ \E c \in Clients, id \in Ids, body \in RaceEdits :
       Patch(c.caller, id, c.jsonOk, body, c.dbOk)

SpecRace == InitRace /\ [][NextRace]_vars

\* C2 as stated: every endpoint answers a request without an authenticated
\* user with a rejection, having made no read or write of the table and no
\* outbound call.
C2_UnauthenticatedRejected ==
  (last.op # "none" /\ last.caller = Anon)
    => /\ last.status = 401
       /\ last.reads = 0 /\ last.writes = 0 /\ last.calls = 0

(***************************************************************************)
(* Properties of the entries endpoints.                                    *)
(***************************************************************************)
Range(f) == {f[i] : i \in DOMAIN f}

\* what the caller sees of an outcome or of a recorded answer
Response(o) ==
  [status |-> o.status, error |-> o.error, entry |-> o.entry, list |-> o.list,
   text |-> o.text, flag |-> o.flag]

SingleEntryOps == {"get", "patch", "delete"}

\* the outcome of the recorded single-entry request l on the table rows at time t
Replay(rows, t, l) ==
  CASE l.op = "get" -> GetEntry(rows, l.caller, l.id, l.cond.dbOk)
    [] l.op = "patch" ->
         PatchEntry(rows, l.caller, l.id, l.cond.jsonOk, l.req, t, l.cond.dbOk)
    [] l.op = "delete" -> DeleteEntry(rows, l.caller, l.id, l.cond.dbOk)

\* the recorded request l is a user's single-entry request on e, which is another's
CrossTenant(e, l) ==
  /\ l.op \in SingleEntryOps
  /\ l.caller \in Users
  /\ l.id = e.id
  /\ e.user_id # l.caller

\* C1: a read-one, partial-update or delete of user A on an entry e of another
\* user B is answered exactly as it would be answered were e not in the store,
\* and e stays in the store as it was.
C1_CrossTenantAsAbsent ==
  [][\A e \in entries :
       CrossTenant(e, last') =>
         /\ e \in entries'
         /\ Response(last') = Response(Replay(entries \ {e}, now, last'))]_vars

\* a user's delete of another user's entry has been answered
C1_Witness ==
  /\ last.op = "delete"
  /\ last.cond.dbOk
  /\ \E e \in entries : CrossTenant(e, last)

\* C3 as stated: a read-one, partial-update or delete of a user on an id that
\* matches no entry of theirs, with a well-formed request and the store
\* answering, is answered 404.
C3_MissingIsNotFound ==
  [][(/\ last'.op \in SingleEntryOps
      /\ last'.caller \in Users
      /\ last'.cond.jsonOk /\ last'.cond.dbOk
      /\ MatchIdUser(entries, last'.id, last'.caller) = {})
     => last'.status = 404]_vars

DefaultListing(rows, user) == Range(ListEntries(rows, user, "", "", "", TRUE).list)
ArchivedListing(rows, user) == Range(ListEntries(rows, user, "", "only", "", TRUE).list)

\* C5 as stated: for every user the default listing and the archived-only
\* listing are disjoint and together hold exactly the entries the user owns.
C5_ListingsPartition ==
  \A u \in Users :
    /\ DefaultListing(entries, u) \cap ArchivedListing(entries, u) = {}
    /\ DefaultListing(entries, u) \cup ArchivedListing(entries, u)
         = {r \in entries : r.user_id = u}

\* C6: a create-one of a category with a payload of its shape, followed by a
\* read-one of the returned id by the same caller, gives back the payload.
C6_CreateReadRoundTrip ==
  [][(/\ last.op = "create" /\ last.status = 200
      /\ {"category", "data"} \subseteq DOMAIN last.req
      /\ <<last.req.category, last.req.data>> \in ShapedPayloads
      /\ last'.op = "get" /\ last'.caller = last.caller
      /\ last'.id = last.entry.id /\ last'.cond.dbOk)
     => /\ last'.status = 200
        /\ last'.entry.data = last.req.data]_vars

\* a created task has been read back by its creator
C6_Witness ==
  /\ last.op = "get" /\ last.status = 200
  /\ last.entry.category = "tasks" /\ last.entry.data = TaskData
  /\ last.entry.user_id = last.caller
  /\ last.entry.created_at = now - 2

\* the columns a partial update with this body may change
PatchMayChange(body) == (DOMAIN body \cap PatchFields) \cup {"updated_at"}

\* C7: a partial update changes, in the addressed entry, only the supplied ones
\* of data, category, needs_review, archived, linked_entries, and updated_at;
\* every other column, and every other entry, stays as it was.
C7_PatchFrame ==
  [][last'.op = "patch" =>
       /\ {r.id : r \in entries'} = {r.id : r \in entries}
       /\ \A r \in entries : \E r2 \in entries' :
            /\ r2.id = r.id
            /\ \A c \in DOMAIN r :
                 (r.id # last'.id \/ c \notin PatchMayChange(last'.req))
                   => r2[c] = r[c]]_vars

\* a partial update whose body also carries keys the endpoint ignores has succeeded
C7_Witness ==
  /\ last.op = "patch" /\ last.status = 200
  /\ {"confidence", "user_id", "created_at"} \subseteq DOMAIN last.req
  /\ last.entry.data = last.req.data

\* rows of the table after a step that were not in it before
Created == {r \in entries' : r.id \notin {x.id : x \in entries}}

\* needs_review of an entry changes only by a partial update that supplies it
ReviewChangesOnlyByPatch ==
  \A r \in entries, r2 \in entries' :
    (r2.id = r.id /\ r2.needs_review # r.needs_review)
      => (last'.op = "patch" /\ "needs_review" \in DOMAIN last'.req)

\* C4: classify-and-create stores needs_review true exactly when the confidence
\* is below 0.6; create-one stores the needs_review the request supplies, false
\* when it supplies none, whatever the confidence; afterwards needs_review
\* changes only by a partial update whose body supplies needs_review.
C4_ReviewFlag ==
  [][/\ \A r \in Created :
          /\ last'.op = "capture" =>
               (r.needs_review = "true" <=> r.confidence < ReviewThreshold)
          /\ last'.op = "create" =>
               r.needs_review = Coalesce(last'.req, "needs_review", "false")
     /\ ReviewChangesOnlyByPatch]_vars

\* create-one has stored a confidence below 0.6 with needs_review false
C4_Witness ==
  /\ last.op = "create" /\ last.status = 200
  /\ last.entry.confidence < ReviewThreshold
  /\ last.entry.needs_review = "false"
  /\ last.entry \in entries

\* C4 as stated: on both creation paths needs_review is true exactly when the
\* confidence is below 0.6, and afterwards it changes only by a
\* recategorization, a partial update that assigns a category.
C4_AsStated ==
  [][/\ \A r \in Created :
          r.needs_review = "true" <=> r.confidence < ReviewThreshold
     /\ \A r \in entries, r2 \in entries' :
          (r2.id = r.id /\ r2.needs_review # r.needs_review)
            => (last'.op = "patch" /\ "category" \in DOMAIN last'.req)]_vars

(***************************************************************************)
(* Properties of the chat routes.                                          *)
(***************************************************************************)
\* the step answers a chat turn whose model call returned
ChatAnswered(l) == l.op = "chat" /\ l.status = 200

\* the reply holds the inline block {"action":"update","updates":U} from i to its end
InlineUpdateAt(reply, i) ==
  /\ i >= 1 /\ i + 7 <= Len(reply)
  /\ SubSeq(reply, i, i + 5)
       = <<LB, Key("action"), Str("update"), COMMA, Key("updates"), LB>>
  /\ SubSeq(reply, Len(reply) - 1, Len(reply)) = <<RB, RB>>
  /\ \A j \in (i + 6)..(Len(reply) - 2) : reply[j] \notin {LB, RB}
  /\ ParseFlat(SubSeq(reply, i + 6, Len(reply) - 2)).ok

EndsWithInlineUpdate(reply) == \E i \in 1..Len(reply) : InlineUpdateAt(reply, i)

TrailingStart(reply) == CHOOSE i \in 1..Len(reply) : InlineUpdateAt(reply, i)

\* the U of the trailing block
TrailingUpdates(reply) ==
  ParseFlat(SubSeq(reply, TrailingStart(reply) + 6, Len(reply) - 2)).map

TrailingBlock(reply) == SubSeq(reply, TrailingStart(reply), Len(reply))

Contains(text, part) ==
  \E j \in 1..(Len(text) - Len(part) + 1) : SubSeq(text, j, j + Len(part) - 1) = part

\* new is old with every key of U overwritten by U's value
Overwritten(old, U, new) ==
  /\ DOMAIN new = DOMAIN old \cup DOMAIN U
  /\ \A k \in DOMAIN new : new[k] = IF k \in DOMAIN U THEN U[k] ELSE old[k]

\* the entry a recorded request addresses, among rows
Addressed(rows, l) == {r \in rows : r.id = l.id /\ r.user_id = l.caller}

\* the first match of the route's patterns in the reply
RouteMatch(kind, reply) ==
  IF kind = "tasks" THEN MatchTaskPattern(reply) ELSE MatchJsonPatterns(reply)

\* the first pattern match is the trailing inline block itself
TrailingIsFirstMatch(kind, reply) ==
  /\ EndsWithInlineUpdate(reply)
  /\ RouteMatch(kind, reply).from = TrailingStart(reply)
  /\ RouteMatch(kind, reply).to = Len(reply)
  /\ RouteMatch(kind, reply).gfrom = 0

\* the route has no special rule for a key of U: no deadline the resolver
\* resolves, no notes to append, no status outside the allowed set
NoSpecialRule(l, t) ==
  LET U == TrailingUpdates(l.reply)
  IN AdjustUpdates(l.req.kind, U, l.req.data, l.req.message, t) = U

ParsedText(kind, reply) ==
  IF kind = "tasks" THEN MatchedJson(reply, RouteMatch(kind, reply))
  ELSE Trim(StripFences(MatchedJson(reply, RouteMatch(kind, reply))))

\* a block is matched in the reply and is not JSON
MatchedUnparsable(kind, reply) ==
  /\ RouteMatch(kind, reply) # NoMatch
  /\ ~JsonParse(ParsedText(kind, reply)).ok

\* C9: when the block matched in the reply of a chat turn is not JSON, the
\* table is left as it was, the answer is a success, and its text is the
\* model's whole reply.
C9_UnparsableBlockIgnored ==
  [][(/\ last'.op = "chat" /\ last'.req \in inflight /\ last'.cond.callOk
      /\ MatchedUnparsable(last'.req.kind, last'.reply))
     => /\ entries' = entries
        /\ last'.status = 200
        /\ last'.writes = 0 /\ ~last'.flag
        /\ last'.text = last'.reply]_vars

\* an idea chat turn was answered with a fenced block that is not JSON
C9_Witness ==
  /\ ChatAnswered(last)
  /\ last.req.kind = "ideas"
  /\ MatchedUnparsable("ideas", last.reply)
  /\ FENCE \in Range(last.reply)
  /\ last.text = last.reply

\* the updates the project route is asked to apply
AskedUpdates(l) == JsonParse(ParsedText(l.req.kind, l.reply)).objs.updates

\* the recorded answer is a project chat turn that wrote an update
ProjectUpdateWritten(l) ==
  /\ ChatAnswered(l) /\ l.req.kind = "projects" /\ l.flag
  /\ RouteMatch("projects", l.reply) # NoMatch
  /\ JsonParse(ParsedText("projects", l.reply)).ok
  /\ IsUpdateAction(JsonParse(ParsedText("projects", l.reply)))

\* C10 as stated: a project chat update whose status is outside
\* {active, on-hold, completed} leaves the stored status as it was and stores
\* every other key of the update; the status a project chat turn stores is
\* always in that set.
C10_StatusStaysValid ==
  ProjectUpdateWritten(last) =>
    \A r \in Addressed(entries, last) :
      /\ ("status" \in DOMAIN AskedUpdates(last)
          /\ AskedUpdates(last).status \notin ProjectStatuses)
           => /\ r.data.status = last.req.data.status
              /\ \A k \in DOMAIN AskedUpdates(last) \ {"status"} :
                   r.data[k] = AskedUpdates(last)[k]
      /\ r.data.status \in ProjectStatuses


(***************************************************************************)
(* Properties of overlapping requests on one entry.                        *)
(***************************************************************************)
\* the recorded answer is a chat turn whose update the store accepted
ChatWrote(l) == ChatAnswered(l) /\ l.flag

\* the step answers a request: the clock ticks once a response
Responds == now' # now

\* the recorded answer is a manual partial update that stored a payload
EditWrote(l) == l.op = "patch" /\ l.status = 200 /\ "data" \in DOMAIN l.req

\* C11: requests that update the same entry are not coordinated.  A chat turn
\* that writes stores the whole payload computed from the snapshot it read
\* when it started: every key its update does not name gets the snapshot's
\* value, whatever the entry holds at the time of the write, and the turn is
\* answered as a success.  A manual update stores the payload it carries.  So
\* the stored data is that of the write applied last.
C11_LastWriteWins ==
  [][/\ (Responds /\ ChatWrote(last')) =>
          \A r \in Addressed(entries, last') : \E r2 \in entries' :
            /\ r2.id = r.id
            /\ DOMAIN r2.data = DOMAIN last'.req.data \cup DOMAIN AskedUpdates(last')
            /\ \A k \in DOMAIN r2.data \ DOMAIN AskedUpdates(last') :
                 r2.data[k] = last'.req.data[k]
     /\ (Responds /\ EditWrote(last')) =>
          \A r \in Addressed(entries, last') : \E r2 \in entries' :
            r2.id = r.id /\ r2.data = last'.req.data]_vars

\* a chat turn still in flight read the task when its priority was high; the
\* turn answered last, which had read the task as it was created and whose
\* update does not name the priority, has put the priority back to low
C11_Witness ==
  /\ ChatWrote(last)
  /\ last.req.data = TaskData
  /\ "priority" \notin DOMAIN AskedUpdates(last)
  /\ \E seen \in inflight :
       /\ seen.id = last.id /\ seen.caller = last.caller
       /\ seen.data.priority = "high"
  /\ \E r \in Addressed(entries, last) : r.data.priority = "low"


\* the reply of a chat turn asks for an update: a block is matched, it is JSON,
\* its action is "update" and it carries updates
AsksUpdate(kind, reply) ==
  /\ RouteMatch(kind, reply) # NoMatch
  /\ JsonParse(ParsedText(kind, reply)).ok
  /\ IsUpdateAction(JsonParse(ParsedText(kind, reply)))

\* the reply without the text the route's pattern matched, trimmed
WithoutMatch(kind, reply) ==
  Trim(SubSeq(reply, 1, RouteMatch(kind, reply).from - 1)
       \o SubSeq(reply, RouteMatch(kind, reply).to + 1, Len(reply)))

\* C12: when the store rejects the write of a chat-triggered update, the turn
\* is still answered 200 with the model's reply without the action block, the
\* table is left as it was, and the updated flag of the response is false.
C12_WriteFailureSwallowed ==
  [][(/\ last'.op = "chat" /\ last'.req \in inflight
      /\ last'.cond.callOk /\ ~last'.cond.dbOk
      /\ AsksUpdate(last'.req.kind, last'.reply))
     => /\ last'.status = 200
        /\ entries' = entries
        /\ ~last'.flag
        /\ last'.text = WithoutMatch(last'.req.kind, last'.reply)]_vars

\* a project chat turn asked to set the priority, the store rejected the write,
\* and the turn was answered with the reply's prose alone
C12_Witness ==
  /\ ChatAnswered(last) /\ ~last.cond.dbOk
  /\ last.req.kind = "projects"
  /\ AsksUpdate("projects", last.reply)
  /\ AskedUpdates(last) = [priority |-> "high"]
  /\ ~last.flag /\ last.text = <<Txt("Done")>>
  /\ \E r \in Addressed(entries, last) :
       r.data = last.req.data /\ r.updated_at = StartMinute


(***************************************************************************)
(* Properties of classify-and-create.                                      *)
(***************************************************************************)
\* the classifier was called and returned: the request had a user, a body that
\* parses and a text
Classifying(l) ==
  /\ l.op = "capture" /\ l.caller \in Users
  /\ l.cond.jsonOk /\ l.cond.callOk /\ l.req.text # ""

\* the reply without a leading and a trailing code fence, trimmed
StrippedReply(reply) == Trim(StripTrailingFence(StripLeadingFence(reply)))

\* the text is one JSON object and nothing else
IsOneDocument(text) == Len(text) = 1 /\ text[1].t = "doc"

\* C13: when the classifier's reply is not JSON after its code fences are
\* stripped, classify-and-create answers with the error "Failed to parse AI
\* response", leaves the table as it was, and has called the model once.
C13_ParseFailureWritesNothing ==
  [][(Classifying(last') /\ ~IsOneDocument(StrippedReply(last'.reply)))
     => /\ last'.status = 500
        /\ last'.error = "Failed to parse AI response"
        /\ entries' = entries
        /\ last'.writes = 0
        /\ last'.calls = 1]_vars

\* a reply that holds a JSON object behind a word of prose was refused
C13_Witness ==
  /\ Classifying(last)
  /\ \E i \in 2..Len(last.reply) : last.reply[i].t = "doc"
  /\ ~IsOneDocument(StrippedReply(last.reply))
  /\ last.status = 500 /\ last.error = "Failed to parse AI response"
  /\ entries = {}


\* the caller's own person entries that are not archived
OwnPeople(rows, user) ==
  {r \in rows : r.user_id = user /\ r.category = "people" /\ r.archived = "false"}

\* the mentioned name is a substring of the entry's name, letter case aside
NameMatches(name, mentioned) ==
  Includes(ToLower(Chars(name)), ToLower(Chars(mentioned)))

\* the people of the caller that one of the mentioned names matches
MatchingPeople(rows, user, mentioned) ==
  {r \in OwnPeople(rows, user) :
     "name" \in DOMAIN r.data /\ \E m \in mentioned : NameMatches(r.data.name, m)}

\* the names the classifier's reply mentions
Mentioned(reply) == StrippedReply(reply)[1].d.mentionedPeople

DigestOps == {"digest", "digest_earlier"}

\* the user has a task or a project that is not archived
HasOpenWork(rows, user) ==
  \E r \in rows :
    r.user_id = user /\ r.category \in {"tasks", "projects"} /\ r.archived = "false"

\* C15: when the caller has no non-archived task and no non-archived project,
\* the digest is answered with an empty list of bullets and no call of the
\* model is made.
C15_NothingOpenNoCall ==
  [][(/\ last'.op \in DigestOps /\ last'.caller \in Users
      /\ ~HasOpenWork(entries, last'.caller))
     => /\ last'.status = 200
        /\ last'.list = <<>>
        /\ last'.calls = 0
        /\ entries' = entries]_vars

\* the digest of a user whose only task has just been archived was answered
\* with no bullets and without a call, the model's reply notwithstanding
C15_Witness ==
  /\ last.op = "digest" /\ last.caller = "u1" /\ last.cond.dbOk
  /\ entries = {Archived(Seed(1, "u1", "tasks", TaskData))}
  /\ ~HasOpenWork(entries, "u1")
  /\ ParseValue(Unfence(last.reply), "arr")
  /\ last.status = 200 /\ last.list = <<>> /\ last.calls = 0

\* C16 as stated: when the model was called for a digest and its reply is not
\* JSON after its code fences are stripped, the digest is answered 200 with an
\* empty list of bullets.
C16_ParseFailureEmptyList ==
  (/\ last.op \in DigestOps /\ last.calls = 1 /\ last.cond.callOk
   /\ ~ParseValue(Unfence(last.reply), "arr"))
    => (last.status = 200 /\ last.list = <<>>)


(***************************************************************************)
(* Properties of the suggestions routes.                                   *)
(***************************************************************************)
SuggestionOps == {"idea_suggestions", "project_suggestions"}

\* the request asks for a new plan
Regenerate(l) == "regenerate" \in DOMAIN l.req /\ l.req.regenerate

\* the request addresses an entry of its route's category that holds a plan
PlanCached(rows, l) ==
  \E r \in Addressed(rows, l) :
    /\ r.category = (IF l.op = "idea_suggestions" THEN "ideas" ELSE "projects")
    /\ "suggestions" \in DOMAIN r.data /\ Truthy(r.data.suggestions)

\* the recorded answer is a plan the route generated for the entry
Generated(l) == l.op \in SuggestionOps /\ l.status = 200 /\ l.calls = 1

\* C17 as stated: a suggestions request that does not ask for regeneration,
\* on an entry that holds a plan or for which the route has just generated
\* one, is answered with that plan without a call of the model; the model is
\* called only when no plan is cached or regeneration is asked for.
C17_CachedUnlessRegenerate ==
  [][(last'.op \in SuggestionOps /\ last'.caller \in Users /\ last'.cond.dbOk)
     => /\ (PlanCached(entries, last') /\ ~Regenerate(last'))
             => (last'.status = 200 /\ last'.calls = 0)
        /\ (/\ Generated(last) /\ last.op = last'.op
            /\ last.id = last'.id /\ last.caller = last'.caller
            /\ ~Regenerate(last'))
             => (last'.status = 200 /\ last'.calls = 0 /\ last'.text = last.text)
        /\ last'.calls > 0 => (~PlanCached(entries, last') \/ Regenerate(last'))]_vars


(***************************************************************************)
(* Properties of the distance route.                                       *)
(***************************************************************************)
\* the provider was asked and answered: a user, both places, a configured key
\* (recorded in cond.dbOk) and a reply
ProviderAnswered(l) ==
  /\ l.op = "distance" /\ l.caller \in Users
  /\ l.req.origin # "" /\ l.req.destination # ""
  /\ l.cond.dbOk /\ l.cond.callOk

\* a request for a distance without one of its two places
PlaceMissing(l) ==
  /\ l.op = "distance" /\ l.caller \in Users
  /\ (l.req.origin = "" \/ l.req.destination = "")

\* C18: the distance route answers a request without origin or destination,
\* a top-level status of the provider other than OK, and a first element
\* that is absent or whose status is not OK, with three rejections whose
\* error texts differ from one another, and answers with a duration and a
\* distance only when none of the three is the case.
C18_DistanceRejections ==
  /\ PlaceMissing(last)
       => (last.status = 400 /\ last.error = "Missing origin or destination")
  /\ (ProviderAnswered(last) /\ last.reply[1].top # "OK")
       => /\ last.status = 400 /\ last.error = last.reply[1].top
          /\ last.error \notin {"Missing origin or destination",
                                "Could not calculate distance"}
  /\ (ProviderAnswered(last) /\ last.reply[1].top = "OK" /\ last.reply[1].el # "OK")
       => (last.status = 400 /\ last.error = "Could not calculate distance")
  /\ (last.op = "distance" /\ last.status = 200)
       => /\ ProviderAnswered(last)
          /\ last.reply[1].top = "OK" /\ last.reply[1].el = "OK"
          /\ last.text = <<Txt("12 mins"), Txt("5 km")>>

\* the provider answered OK with an element that was not found, and the
\* request was rejected as one whose distance could not be calculated
C18_Witness ==
  /\ ProviderAnswered(last)
  /\ last.reply[1].top = "OK" /\ last.reply[1].el = "NOT_FOUND"
  /\ last.status = 400 /\ last.error = "Could not calculate distance"


(***************************************************************************)
(* Properties of the deadlines task chat stores.                           *)
(***************************************************************************)
\* the recorded answer is a task chat turn that stored an update with a deadline
DeadlineWritten(l) ==
  /\ ChatWrote(l) /\ l.req.kind = "tasks"
  /\ "deadline" \in DOMAIN AskedUpdates(l)

\* the deadline the entry holds after the turn
StoredDeadline(rows, l) == {r.data.deadline : r \in Addressed(rows, l)}

\* the phrases the resolver knows
RecognisedPhrases == {"today", "tomorrow", "next week"}

\* C19 as stated: a deadline of a task chat update that is none of the
\* recognised phrases and that Date parses, such as 2025-03-01, is stored as
\* the ISO string of that same date.
C19_GenericDateKept ==
  [][(/\ Responds /\ DeadlineWritten(last')
      /\ AskedUpdates(last').deadline \in DOMAIN DateTable
      /\ AskedUpdates(last').deadline \notin RecognisedPhrases)
     => StoredDeadline(entries', last')
          = {Iso(DateTable[AskedUpdates(last').deadline])}]_vars

\* the clock time a deadline string gives, in minutes after midnight
GivenClockTime == ("tomorrow 3pm" :> 15 * MinutesPerHour)

\* the ISO strings of the minutes of the day that starts at minute t
DayOf(t) == {Iso(t + m) : m \in 0..(MinutesPerDay - 1)}

\* C20 as stated: the deadline "tomorrow" is stored as the day after the
\* current one at midnight, "tomorrow" with a clock time as that day at that
\* time, and "next week" as a time of the seventh day after the current one.
C20_TomorrowAndNextWeek ==
  [][(Responds /\ DeadlineWritten(last')) =>
       LET d == AskedUpdates(last').deadline
           today == StartOfDay(now)
       IN /\ d \in {"tomorrow", "Tomorrow"}
               => StoredDeadline(entries', last') = {Iso(today + MinutesPerDay)}
          /\ d \in DOMAIN GivenClockTime
               => StoredDeadline(entries', last')
                    = {Iso(today + MinutesPerDay + GivenClockTime[d])}
          /\ d = "next week"
               => StoredDeadline(entries', last') \subseteq DayOf(today + 7 * MinutesPerDay)]_vars

\* a string no step of the resolver takes: not one of its phrases, no digit
\* for the time pattern, and nothing Date can parse
WithoutDate(d) ==
  LET lowered == TrimChars(ToLower(Chars(d)))
  IN /\ lowered \notin {Chars(p) : p \in RecognisedPhrases}
     /\ \A i \in 1..Len(lowered) : ~IsDigit(lowered[i])
     /\ d \notin DOMAIN DateTable

\* C21: for a deadline string no step of the resolver takes, parseNaturalDate
\* returns null, and the task chat update stores the deadline as the literal
\* string together with every other field of the same update.
C21_UnparsedDeadlineKept ==
  [][(/\ Responds /\ DeadlineWritten(last')
      /\ WithoutDate(AskedUpdates(last').deadline))
     => /\ parseNaturalDate(AskedUpdates(last').deadline, now) = Null
        /\ \A r \in Addressed(entries', last') :
             /\ \A k \in DOMAIN AskedUpdates(last') :
                  k \in DOMAIN r.data /\ r.data[k] = AskedUpdates(last')[k]
             /\ \A k \in DOMAIN last'.req.data \ DOMAIN AskedUpdates(last') :
                  k \in DOMAIN r.data /\ r.data[k] = last'.req.data[k]]_vars

\* a turn asked for the deadline "whenever" and a priority, and the task
\* holds both as they were given
C21_Witness ==
  /\ DeadlineWritten(last)
  /\ AskedUpdates(last).deadline = "whenever"
  /\ \E r \in Addressed(entries, last) :
       r.data.deadline = "whenever" /\ r.data.priority = "high"


(***************************************************************************)
(* Properties of the notes task chat stores.                               *)
(***************************************************************************)
\* the recorded answer is a task chat turn that stored an update with notes
NotesWritten(l) ==
  /\ ChatWrote(l) /\ l.req.kind = "tasks"
  /\ "notes" \in DOMAIN AskedUpdates(l)

\* the notes the turn read with the task, when it had any
NotesRead(l) ==
  IF "notes" \in DOMAIN l.req.data THEN l.req.data.notes ELSE ""

\* the user's message holds the phrase, in whatever case
SaysAddToNotes(message) == Includes(ToLower(Chars(message)), Chars("add to notes"))

C22_WitnessReplace ==
  /\ NotesWritten(last)
  /\ last.req.message = "add notes"
  /\ NotesRead(last) = "old"
  /\ \E r \in Addressed(entries, last) : r.data.notes = "buy milk"


(***************************************************************************)
(* Properties of the PDF export.                                           *)
(***************************************************************************)
Rendered(l) == l.op = "pdf_render"

Elements(l) == {l.doc.elements[i] : i \in DOMAIN l.doc.elements}

\* C23 as stated: every element of the document (text line, divider, panel,
\* glyph, footer) is drawn with its y at or above the bottom margin of its
\* page.
C23_NothingBelowMargin ==
  Rendered(last) => \A e \in Elements(last) : e.y >= margin

\* the elements of a kind, in the order they were drawn
OfKind(l, kind) ==
  LET Is(e) == e.kind = kind
  IN SelectSeq(l.doc.elements, Is)

\* the description lines drawn for step i, in the order they were drawn
StepLines(l, i) ==
  LET Is(e) == e.kind = "step_line" /\ e.n = i
  IN SelectSeq(l.doc.elements, Is)

\* the words of the lines lo..hi, one line after the other
RECURSIVE WordsOfLines(_, _, _)
WordsOfLines(lines, lo, hi) ==
  IF lo > hi THEN <<>>
  ELSE IF lo = hi THEN lines[lo].what
  ELSE WordsOfLines(lines, lo, (lo + hi) \div 2)
         \o WordsOfLines(lines, (lo + hi) \div 2 + 1, hi)

\* the words of a text without the empty ones
ProperWords(text) ==
  LET Is(w) == w # 0
  IN SelectSeq(text, Is)

\* the distance y moves down over the statements lo..hi
RECURSIVE Descent(_, _, _)
Descent(statements, lo, hi) ==
  IF lo > hi THEN 0
  ELSE IF lo = hi
  THEN IF statements[lo].op = "down" THEN statements[lo].arg ELSE 0
  ELSE Descent(statements, lo, (lo + hi) \div 2)
         + Descent(statements, (lo + hi) \div 2 + 1, hi)

\* the height of the content: from the first baseline to the footer's
ContentHeight(l) ==
  LET statements == Statements([insight |-> l.insight], l.plan)
  IN Descent(statements, 1, Len(statements))

Loaded == {client.entries[i] : i \in DOMAIN client.entries}

Listed(view) == {view[i] : i \in DOMAIN view}

\* the cards and the review queue an entry is shown in
QueueAndCards(e) ==
  {c \in Categories : e \in Listed(getEntriesByCategory(client.entries, c))}
    \cup (IF e \in Listed(reviewEntries(client.entries)) THEN {"review"} ELSE {})

\* every place of the dashboard an entry is shown in
ShownIn(e) ==
  QueueAndCards(e)
    \cup (IF e \in Listed(savedIdeas(client.entries)) THEN {"saved"} ELSE {})

\* the category assignment answered last was successful
Assigned == last.op = "assign" /\ last.status = 200

\* C25 as stated: every loaded entry is shown in exactly one place, the
\* review queue if its needsReview is true and else the card of its
\* category, and after a successful assignment the entry has needsReview
\* false and the chosen category and is shown only in that category's card.
C25_AsStated ==
  client.page = "dashboard" =>
    /\ \A e \in Loaded :
         ShownIn(e) = IF e.needs_review = "true" THEN {"review"} ELSE {e.category}
    /\ Assigned =>
         \A e \in Loaded :
           e.id = last.id =>
             /\ e.needs_review = "false" /\ e.category = last.req.category
             /\ ShownIn(e) = {last.req.category}

\* C25: of the review queue and the four cards every loaded entry is shown
\* in exactly one, the review queue if its needsReview is true and else the
\* card of its category; an idea whose data.saved is true is listed among
\* the saved ideas as well, in review or not; after a successful assignment
\* the entry has needsReview false and the chosen category and of the queue
\* and the cards it is shown in that category's card only.
C25_QueueOrCard ==
  client.page = "dashboard" =>
    /\ \A e \in Loaded :
         /\ QueueAndCards(e)
              = IF e.needs_review = "true" THEN {"review"} ELSE {e.category}
         /\ "saved" \in ShownIn(e)
              <=> (/\ e.category = "ideas"
                   /\ "saved" \in DOMAIN e.data /\ e.data.saved = "true")
    /\ Assigned =>
         \A e \in Loaded :
           e.id = last.id =>
             /\ e.needs_review = "false" /\ e.category = last.req.category
             /\ QueueAndCards(e) = {last.req.category}
             /\ e \in entries

\* the idea in review was assigned to the ideas: it is in the ideas card
\* and, being saved, among the saved ideas
C25_Witness ==
  /\ client.page = "dashboard" /\ Assigned
  /\ last.req.category = "ideas"
  /\ \E e \in Loaded :
       /\ e.id = last.id
       /\ ShownIn(e) = {"ideas", "saved"}


(***************************************************************************)
(* Properties of the writes to entries that exist.                         *)
(***************************************************************************)
\* the rows of the table that this step changed, as they are after it
Modified == {q \in entries' : \E r \in entries : r.id = q.id /\ r # q}

\* the routes that write to an entry that exists
WritingOps == {"patch", "chat", "save", "project_suggestions"}

\* C26: a partial update, a chat update, a save toggle and the caching of
\* project suggestions set updated_at to the time of the operation in the
\* write that modifies the entry: a row a step changes has the time of that
\* step as its updated_at, which is not before the one it had.
C26_UpdatedAtBumped ==
  [][\A q \in Modified :
       /\ last'.op \in WritingOps /\ Responds
       /\ q.updated_at = now
       /\ \A r \in entries : r.id = q.id => r.updated_at <= q.updated_at]_vars

\* a save toggle a minute after the idea was made: the idea holds the new
\* flag and the time of the toggle
C26_Witness ==
  /\ last.op = "save" /\ last.status = 200
  /\ \E r \in Addressed(entries, last) :
       /\ r.updated_at = now - 1
       /\ r.updated_at > r.created_at
       /\ r.data.saved = "true"

\* the columns the chat routes, the save toggle and the suggestions leave alone
FramedColumns ==
  {"id", "category", "needs_review", "archived", "linked_entries", "confidence",
   "user_id", "created_at"}

\* C27: a step of a chat route, of the save toggle or of the project
\* suggestions changes no column of an entry but data and updated_at, and
\* adds or removes no entry; and the category of an entry changes only in a
\* partial update whose body supplies category.
C27_OnlyDataWritten ==
  [][/\ (Responds /\ last'.op \in {"chat", "save", "project_suggestions"})
          => /\ {r.id : r \in entries'} = {r.id : r \in entries}
             /\ \A r \in entries, q \in entries' :
                  r.id = q.id => \A c \in FramedColumns : q[c] = r[c]
     /\ \A r \in entries, q \in entries' :
          (r.id = q.id /\ q.category # r.category)
            => /\ Responds /\ last'.op = "patch"
               /\ "category" \in DOMAIN last'.req
               /\ q.category = last'.req.category]_vars

\* a chat turn whose update names category: the idea in review holds
\* people as the category of its data, and is still an idea in review
C27_Witness ==
  /\ ChatWrote(last)
  /\ "category" \in DOMAIN AskedUpdates(last)
  /\ \E r \in Addressed(entries, last) :
       /\ r.data.category = "people"
       /\ r.category = "ideas" /\ r.needs_review = "true"

\* ---------------------------------------------------------------------------
\* Creation alone: create-one and classify-and-create on an empty table, with
\* bodies and model replies that try to set the owner and the archived flag.

ForgedBodies ==
  {[category |-> "ideas", data |-> IdeaData],
   [category |-> "tasks", data |-> TaskData, confidence |-> 30],
   [category |-> "tasks", data |-> TaskData, needs_review |-> "true"],
   [category |-> "ideas", data |-> IdeaData, confidence |-> 100,
    needs_review |-> "true", archived |-> "true", user_id |-> "u2"],
   [category |-> "ideas", data |-> IdeaData, archived |-> "true",
    user_id |-> "u1"],
   [category |-> "ideas"]}

ForgedReplies ==
  {<<Doc(Classified("tasks", 59, TaskData, {}))>>,
   <<Doc(Classified("ideas", 95, IdeaData, {}))>>,
   <<Doc([category |-> "ideas", confidence |-> 95, data |-> IdeaData,
          mentionedPeople |-> {}, archived |-> "true", user_id |-> "u2"])>>,
   <<Doc([category |-> "tasks", confidence |-> 30, data |-> TaskData,
          mentionedPeople |-> {}, archived |-> "true", user_id |-> "u1"])>>,
   <<Txt("Sure")>>}

InitCreate == Init

NextCreate ==
  \/ \E c \in Clients, body \in ForgedBodies :
       Create(c.caller, c.jsonOk, body, c.dbOk)
  \/ \E c \in CaptureClients, text \in CaptureTexts, reply \in ForgedReplies :
       Capture(c.caller, c.jsonOk, text, c.callOk, reply, c.dbOk, c.readOk)

SpecCreate == InitCreate /\ [][NextCreate]_vars

\* C28: an entry created by create-one or classify-and-create belongs to the
\* authenticated caller and is not archived, whatever the body or the model
\* reply holds; create-one stores confidence 1.0 and needs_review false when
\* the body omits them.
C28_OwnerAndDefaults ==
  [][(Responds /\ last'.op \in {"create", "capture"})
       => \A r \in Created :
            /\ r.user_id = last'.caller
            /\ r.user_id \in Users
            /\ r.archived = "false"
            /\ (last'.op = "create" /\ "confidence" \notin DOMAIN last'.req)
                 => r.confidence = ManualConfidence
            /\ (last'.op = "create" /\ "needs_review" \notin DOMAIN last'.req)
                 => r.needs_review = "false"]_vars

\* the model's reply named another owner and asked for an archived entry, and
\* the entry was stored for the caller
C28_Witness ==
  /\ last.op = "capture" /\ last.status = 200
  /\ last.caller = "u1"
  /\ \E i \in 1..Len(last.reply) :
       /\ last.reply[i].t = "doc"
       /\ {"archived", "user_id"} \subseteq DOMAIN last.reply[i].d
       /\ last.reply[i].d.user_id = "u2"
  /\ \E r \in entries : r.id = last.entry.id /\ r.user_id = "u1"

\* a create-one body naming another owner, without defaults to fill in
C28_WitnessCreate ==
  /\ last.op = "create" /\ last.status = 200
  /\ last.caller = "u1"
  /\ "user_id" \in DOMAIN last.req /\ last.req.user_id = "u2"
  /\ \E r \in entries : r.id = last.entry.id /\ r.archived = "false"

\* ---------------------------------------------------------------------------
\* The chat panels (IdeaChat, ProjectChat, TaskChat). The three components hold
\* the same state (messages, input, isLoading) and the same sendMessage; the
\* project panel's sendMessage also takes the text of a quick action. A message
\* is kept as its role and content; its id and timestamp (Date.now) are left
\* out. The promise returned by fetch is the field fetching: the message sent
\* and the server's clock when it was sent.

MaxSends == 2

NoFetch == [message |-> "", at |-> 0]

ChatPanel(kind, id) ==
  [page |-> "chat", kind |-> kind, id |-> id, messages |-> <<>>,
   input |-> <<>>, isLoading |-> FALSE, fetching |-> NoFetch]

ApologyText == <<Txt("Sorry, I encountered an error. Please try again.")>>

UserMessage(content) == [role |-> "user", content |-> content]

AssistantMessage(content) == [role |-> "assistant", content |-> content]

\* the texts typed into the panel; trimmed they are empty or one run of text
PanelInputs ==
  {<<SP>>, <<SP, Txt("Add to notes"), SP>>, <<Txt("set priority")>>}

QuickActions == {<<Txt("Change status")>>}

\* the early return of sendMessage, negated
CanSendWhileLoading(content, isLoading) == content # <<>>

CanSend(content, isLoading) == ~(content = <<>> \/ isLoading)

\* onChange of the textarea and, in the idea and task panels, a quick action;
\* the textarea is disabled while loading
setInput(text) ==
  /\ client.page = "chat"
  /\ ~client.isLoading
  /\ client' = [client EXCEPT !.input = text]
  /\ UNCHANGED <<entries, nextId, now, inflight, last>>

\* sendMessage up to its await; text is <<>> when it is called without argument
sendMessage(text) ==
  LET content == Trim(IF text # <<>> THEN text ELSE client.input)
  IN /\ client.page = "chat"
     /\ text # <<>> => client.kind = "projects"
     /\ Len(client.messages) < 2 * MaxSends
     /\ now < StartMinute + MaxTime
     /\ IF CanSend(content, client.isLoading)
        THEN client' = [client EXCEPT
                          !.messages = Append(@, UserMessage(content)),
                          !.input = <<>>,
                          !.isLoading = TRUE,
                          !.fetching = [message |-> content[1].v, at |-> now]]
        ELSE UNCHANGED client
     /\ UNCHANGED <<entries, nextId, now, inflight, last>>

\* the request has left the panel and no route has taken it up yet
Unhandled == client.fetching # NoFetch /\ inflight = {} /\ now = client.fetching.at

\* the route has answered the request the panel is waiting for
Answered == client.fetching # NoFetch /\ inflight = {} /\ now > client.fetching.at

\* the chat route takes the panel's request up (the session may have ended)
PanelRouteBegin(caller, coords, dbOk) ==
  /\ client.page = "chat"
  /\ Unhandled
  /\ coords => client.kind = "tasks"
  /\ ChatBegin(client.kind, caller, client.id, TRUE, client.fetching.message,
               coords, dbOk)

PanelRouteFinish(req, callOk, reply, dbOk) ==
  /\ client.page = "chat"
  /\ ChatFinish(req, callOk, reply, dbOk)

\* sendMessage after its await: the try block from res.ok on, catch and finally.
\* The parent's callback (handleIdeaUpdate, handleProjectUpdate, fetchTask) sets
\* the parent's state and does not throw.
AfterFetch(panel, resolved, res, bodyOk) ==
  [panel EXCEPT
     !.messages = Append(@, IF resolved /\ res.status = 200 /\ bodyOk
                            THEN AssistantMessage(res.text)
                            ELSE AssistantMessage(ApologyText)),
     !.isLoading = FALSE,
     !.fetching = NoFetch]

fetchResolved(bodyOk) ==
  /\ client.page = "chat"
  /\ Answered
  /\ client' = AfterFetch(client, TRUE, last, bodyOk)
  /\ UNCHANGED <<entries, nextId, now, inflight, last>>

\* the request never arrived or the response was lost
fetchRejected ==
  /\ client.page = "chat"
  /\ client.fetching # NoFetch /\ inflight = {}
  /\ client' = AfterFetch(client, FALSE, NoRequest, FALSE)
  /\ UNCHANGED <<entries, nextId, now, inflight, last>>

PanelStores ==
  {{Seed(1, "u1", "ideas", IdeaData)},
   {Seed(1, "u1", "projects", ProjectData)},
   {Seed(1, "u1", "tasks", TaskDataFull)},
   {Seed(1, "u2", "ideas", IdeaData)}}

PanelTurns ==
  {[reply |-> <<Txt("Sure")>>, callOk |-> TRUE, dbOk |-> TRUE],
   [reply |-> <<Txt("Noted"), SP>> \o Block("update", Member("notes", "buy milk")),
    callOk |-> TRUE, dbOk |-> TRUE],
   [reply |-> <<>>, callOk |-> FALSE, dbOk |-> TRUE]}

InitPanel ==
  /\ entries \in PanelStores
  /\ nextId = 2
  /\ now = StartMinute
  /\ inflight = {}
  /\ last = NoRequest
  /\ client \in {ChatPanel(kind, 1) : kind \in ChatKinds}

Typing == \E text \in PanelInputs : setInput(text)

Sending == \E text \in {<<>>} \cup QuickActions : sendMessage(text)

RouteBegins ==
  \E caller \in {"u1", Anon}, coords \in BOOLEAN, dbOk \in BOOLEAN :
    PanelRouteBegin(caller, coords, dbOk)

RouteFinishes ==
  \E req \in inflight, turn \in PanelTurns :
    PanelRouteFinish(req, turn.callOk, turn.reply, turn.dbOk)

Settles == (\E bodyOk \in BOOLEAN : fetchResolved(bodyOk)) \/ fetchRejected

NextPanel ==
  \/ Typing
  \/ Sending
  \/ RouteBegins
  \/ RouteFinishes
  \/ \E bodyOk \in BOOLEAN : fetchResolved(bodyOk)
  \/ fetchRejected

SpecPanel == InitPanel /\ [][NextPanel]_vars

\* a route handler that has started runs to its response, and the promise of
\* fetch settles: it resolves with the response or rejects
SpecPanelFair ==
  /\ SpecPanel
  /\ WF_vars(RouteBegins)
  /\ WF_vars(RouteFinishes)
  /\ WF_vars(Settles)

OfRole(messages, role) == {i \in DOMAIN messages : messages[i].role = role}

C29_WitnessReply ==
  /\ client.page = "chat" /\ ~client.isLoading
  /\ Len(client.messages) = 2
  /\ last # NoRequest /\ last.op = "chat" /\ last.status = 200
  /\ client.messages[2] = AssistantMessage(last.text)

\* ---------------------------------------------------------------------------
\* The save toggle as the route runs it: the read of the idea and the write of
\* the payload built from that read are two awaits, and requests of other tabs
\* are served between them. The idea page (IdeaPage) of each tab keeps
\* isSavedToCollection and savingToCollection; its button is disabled while
\* its own request is out.

Tabs == {"A", "B"}

IsSaved(data) == "saved" \in DOMAIN data /\ data.saved = "true"

IdeaPages(rows) ==
  [page |-> "idea",
   isSavedToCollection |->
     [tab \in Tabs |-> \E r \in MatchIdUser(rows, 1, "u1") :
                         r.category = "ideas" /\ IsSaved(r.data)],
   savingToCollection |-> [tab \in Tabs |-> FALSE]]

SaveRequest(tab, caller, id, data) ==
  [kind |-> "save", tab |-> tab, caller |-> caller, id |-> id, data |-> data]

\* the route up to the read of the idea (status 0: the read went through)
SaveRead(rows, caller, id, dbOk) ==
  IF caller = Anon THEN Unauthorized(rows)
  ELSE LET res == Single(MatchIdUser(rows, id, caller), dbOk)
       IN IF res.error # "none"
          THEN Outcome(404, "Idea not found", NoRow, <<>>, rows, 1, 0, 0)
          ELSE IF res.data.category # "ideas"
          THEN Outcome(400, "Entry is not an idea", NoRow, <<>>, rows, 1, 0, 0)
          ELSE Outcome(0, "", res.data, <<>>, rows, 1, 0, 0)

\* the route from newSavedState on, with the payload of the earlier read
SaveWrite(rows, req, t, writeOk) ==
  LET newSaved == IF IsSaved(req.data) THEN "false" ELSE "true"
      data == Merge(req.data, [saved |-> newSaved])
  IN IF ~writeOk
     THEN Outcome(500, "Failed to update", NoRow, <<>>, rows, 1, 1, 0)
     ELSE [Outcome(200, "", NoRow, <<>>,
                   WriteData(rows, req.caller, req.id, data, t, TRUE), 1, 1, 0)
             EXCEPT !.flag = ~IsSaved(req.data)]

\* handleToggleSaveToCollection after the response: res.ok sets the flag shown
AfterToggle(pages, tab, out) ==
  [pages EXCEPT
     !.isSavedToCollection[tab] = IF out.status = 200 THEN out.flag ELSE @,
     !.savingToCollection[tab] = FALSE]

\* a click on the button of one tab, up to the route's read
SaveBegin(tab, caller, id, dbOk) ==
  LET out == SaveRead(entries, caller, id, dbOk)
  IN /\ client.page = "idea"
     /\ ~client.savingToCollection[tab]
     /\ IF out.status = 0
        THEN /\ inflight' = inflight \cup
                  {SaveRequest(tab, caller, id, out.entry.data)}
             /\ client' = [client EXCEPT !.savingToCollection[tab] = TRUE]
             /\ UNCHANGED <<entries, nextId, now, last>>
        ELSE /\ Serve("save", caller, id, EmptyObj, <<>>,
                      Conditions(TRUE, dbOk, TRUE), out)
             /\ client' = AfterToggle(client, tab, out)
             /\ UNCHANGED <<nextId, inflight>>

\* the route's write and response, and the page's handling of it
SaveFinish(req, writeOk) ==
  LET out == SaveWrite(entries, req, now, writeOk)
  IN /\ client.page = "idea"
     /\ req \in inflight
     /\ Serve("save", req.caller, req.id, EmptyObj, <<>>,
              Conditions(TRUE, writeOk, TRUE), out)
     /\ client' = AfterToggle(client, req.tab, out)
     /\ inflight' = inflight \ {req}
     /\ UNCHANGED nextId

ToggleStores ==
  {{Seed(1, "u1", "ideas", IdeaData)},
   {Seed(1, "u1", "ideas", IdeaDataNoted)},
   {Seed(1, "u1", "tasks", TaskData)},
   {Seed(1, "u2", "ideas", IdeaData)}}

ToggleEdits == {[data |-> Merge(IdeaData, [notes |-> "new"])]}

InitToggle ==
  /\ entries \in ToggleStores
  /\ nextId = 2
  /\ now = StartMinute
  /\ inflight = {}
  /\ last = NoRequest
  /\ client = IdeaPages(entries)

NextToggle ==
  \/ \E tab \in Tabs, caller \in {"u1", Anon}, dbOk \in BOOLEAN :
       SaveBegin(tab, caller, 1, dbOk)
  \/ \E req \in inflight, writeOk \in BOOLEAN :
       SaveFinish(req, writeOk)
  \/ \E body \in ToggleEdits :
       Patch("u1", 1, TRUE, body, TRUE)

SpecToggle == InitToggle /\ [][NextToggle]_vars

\* C30: a save toggle that succeeds flips the stored saved flag of the idea,
\* returns the new value and leaves every other data field as it was, so that
\* two completed toggles leave the flag where it was before them.
C30_ToggleFlips ==
  [][(Responds /\ last'.op = "save" /\ last'.status = 200)
       => \A r \in entries : r.id = last'.id =>
            \E q \in entries' :
              /\ q.id = r.id
              /\ IsSaved(q.data) # IsSaved(r.data)
              /\ last'.flag = IsSaved(q.data)
              /\ DOMAIN q.data \ {"saved"} = DOMAIN r.data \ {"saved"}
              /\ \A k \in DOMAIN r.data \ {"saved"} : q.data[k] = r.data[k]]_vars

\* the same with the toggles of the two tabs kept apart: it holds of a toggle
\* that no other request overlapped
C30_ToggleAlone ==
  [][(Responds /\ last'.op = "save" /\ last'.status = 200
        /\ \A r \in entries : r.id = last'.id =>
             \A req \in inflight : req.id = r.id => req.data = r.data)
       => \A r \in entries : r.id = last'.id =>
            \E q \in entries' :
              /\ q.id = r.id
              /\ IsSaved(q.data) # IsSaved(r.data)
              /\ last'.flag = IsSaved(q.data)
              /\ DOMAIN q.data \ {"saved"} = DOMAIN r.data \ {"saved"}
              /\ \A k \in DOMAIN r.data \ {"saved"} : q.data[k] = r.data[k]]_vars

\* both tabs' toggles have completed with 200 and the idea, unsaved at first,
\* is saved
C30_BothDone ==
  /\ client.page = "idea"
  /\ now = StartMinute + 2 /\ inflight = {}
  /\ last.op = "save" /\ last.status = 200 /\ last.flag
  /\ \A tab \in Tabs : client.isSavedToCollection[tab]
  /\ \E r \in entries : r.id = 1 /\ r.data = Merge(IdeaData, [saved |-> "true"])

====
